---- MODULE Spec2Model ----
(***************************************************************************)
(* The EL+ reasoner of the JSW toolkit (src/OWL Reasoner/jsw.js):          *)
(* jsw.owl.Reasoner builds, from an Ontology object, the normalized        *)
(* ontology, the object-property subsumers, the class subsumers and the    *)
(* rewritten A-Box, and then answers isSubclass and answerQuery calls.     *)
(*                                                                         *)
(* JavaScript objects used as maps are modelled by sequences that keep the *)
(* insertion order of their keys (the order in which for-in visits them);  *)
(* JavaScript arrays are sequences, indexed from 0 in the source and from  *)
(* 1 here.                                                                 *)
(*                                                                         *)
(* The file also has the utilities of the toolkit used by its callers:     *)
(* jsw.util.Queue and the TabControl of the demonstration page.            *)
(***************************************************************************)
EXTENDS Integers, Sequences, FiniteSets, TLC

VARIABLES
    pc,                        \* position of the Reasoner constructor / reasoner life cycle
    ontology,                  \* this.originalOntology
    queue,                     \* normalizeOntology: queue of statements still to normalize
    resultOntology,            \* normalizeOntology: resultOntology (normalizedOntology afterwards)
    objectPropertySubsumers,   \* PairStorage built by buildObjectPropertySubsumerSets
    classSubsumers,            \* buildClassSubsumerSets: classSubsumers (this.classSubsumers)
    edgeLabels,                \* buildClassSubsumerSets: edgeLabels
    queues,                    \* buildClassSubsumerSets: queues, one jsw.util.Queue per node
    nodes,                     \* keys of the queues object, in insertion order
    aBox,                      \* this.aBox
    result,                    \* what the last isSubclass / answerQuery call returned or threw
    tabControl                 \* a TabControl object and the elements of the page it works on

vars == <<pc, ontology, queue, resultOntology, objectPropertySubsumers, classSubsumers,
          edgeLabels, queues, nodes, aBox, result, tabControl>>

-----------------------------------------------------------------------------
(* jsw.owl.EXPRESSION_TYPES, jsw.owl.IRIS, jsw.rdf.IRIS                     *)

AXIOM_CLASS_SUB == 0
AXIOM_CLASS_EQ == 1
AXIOM_OPROP_SUB == 2
AXIOM_OPROP_EQ == 3
CE_INTERSECT == 4
CE_OBJ_VALUES_FROM == 5
ET_CLASS == 6
ET_OPROP == 7
ET_INDIVIDUAL == 8
FACT_CLASS == 9
FACT_OPROP == 10
OPE_CHAIN == 11

THING == "owl:Thing"
TYPE == "http://www.w3.org/1999/02/22-rdf-syntax-ns#type"

\* What a missing property reads as when it is used as a key of an object.
UNDEFINED == "undefined"

-----------------------------------------------------------------------------
(* Generic helpers for sequences.                                          *)

Range(s) == {s[i] : i \in 1..Len(s)}

Contains(s, x) == \E i \in 1..Len(s) : s[i] = x

\* <<n, n-1, ..., 0>>: the indices visited by  i = n; do { ... } while (i--)
DownFrom(n) == [i \in 1..(n + 1) |-> n + 1 - i]

\* JavaScript array access, 0-based.
At(s, i) == s[i + 1]

RECURSIVE Flatten(_)
Flatten(ss) == IF ss = <<>> THEN <<>> ELSE Head(ss) \o Flatten(Tail(ss))

RECURSIVE Distinct(_)
\* The elements of s in the order of their first occurrence.
Distinct(s) ==
    IF s = <<>> THEN <<>>
    ELSE LET rest == Distinct(SubSeq(s, 1, Len(s) - 1))
             last == s[Len(s)]
         IN IF Contains(rest, last) THEN rest ELSE Append(rest, last)

RECURSIVE SubsetsUpTo(_, _)
\* The subsets of S with at most k elements.
SubsetsUpTo(S, k) ==
    IF k = 0 THEN {{}}
    ELSE LET P == SubsetsUpTo(S, k - 1) IN P \cup {T \cup {x} : T \in P, x \in S}

RECURSIVE Ascending(_)
\* The numbers of S in increasing order.
Ascending(S) ==
    IF S = {} THEN <<>>
    ELSE LET m == CHOOSE x \in S : \A y \in S : x <= y
         IN <<m>> \o Ascending(S \ {m})

-----------------------------------------------------------------------------
(* The data model: entities, expressions and statements as the OWL/XML     *)
(* parser builds them (jsw.owl.xml.parse).                                 *)

Class(iri) == [type |-> ET_CLASS, IRI |-> iri]
ObjectProperty(iri) == [type |-> ET_OPROP, IRI |-> iri]
NamedIndividual(iri) == [type |-> ET_INDIVIDUAL, IRI |-> iri]
ObjectIntersectionOf(classExprs) == [type |-> CE_INTERSECT, args |-> classExprs]
ObjectSomeValuesFrom(oprop, classExpr) ==
    [type |-> CE_OBJ_VALUES_FROM, opropExpr |-> oprop, classExpr |-> classExpr]
ObjectPropertyChain(oprops) == [type |-> OPE_CHAIN, args |-> oprops]
SubClassOf(c, d) == [type |-> AXIOM_CLASS_SUB, args |-> <<c, d>>]
EquivalentClasses(classExprs) == [type |-> AXIOM_CLASS_EQ, args |-> classExprs]
SubObjectPropertyOf(firstArg, secondArg) ==
    [type |-> AXIOM_OPROP_SUB, arg1 |-> firstArg, arg2 |-> secondArg]
EquivalentObjectProperties(oprops) == [type |-> AXIOM_OPROP_EQ, args |-> oprops]
ClassAssertion(classExpr, individual) ==
    [type |-> FACT_CLASS, individual |-> individual, classExpr |-> classExpr]
ObjectPropertyAssertion(oprop, left, right) ==
    [type |-> FACT_OPROP, leftIndividual |-> left, objectProperty |-> oprop,
     rightIndividual |-> right]

\* expr.IRI: the IRI of an entity, undefined for every other expression.
IRI(expr) == IF "IRI" \in DOMAIN expr THEN expr.IRI ELSE UNDEFINED

-----------------------------------------------------------------------------
(* jsw.util.Queue                                                          *)

Queue == [queue |-> <<>>, emptyElements |-> 0]

isEmpty(q) == Len(q.queue) = 0

enqueue(q, obj) == [q EXCEPT !.queue = Append(@, obj)]

RECURSIVE enqueueAll(_, _)
enqueueAll(q, objs) ==
    IF objs = <<>> THEN q ELSE enqueueAll(enqueue(q, Head(objs)), Tail(objs))

\* The element dequeue returns; only used on a queue that is not empty.
dequeued(q) == At(q.queue, q.emptyElements)

\* dequeue shrinking the array from the element it returns, which stays in the queue.
dequeue_returnedKept(q) ==
    LET queueLength == Len(q.queue)
        emptyElements == q.emptyElements + 1
    IN IF queueLength = 0 THEN q
       ELSE IF emptyElements * 2 >= queueLength - 1
            THEN [queue |-> SubSeq(q.queue, emptyElements, queueLength),
                  emptyElements |-> 0]
            ELSE [q EXCEPT !.emptyElements = emptyElements]

\* The queue after dequeue: shrinks when more than a half of the array is empty.
dequeue(q) ==
    LET queueLength == Len(q.queue)
        emptyElements == q.emptyElements + 1
    IN IF queueLength = 0 THEN q
       ELSE IF emptyElements * 2 >= queueLength - 1
            THEN [queue |-> SubSeq(q.queue, emptyElements + 1, queueLength),
                  emptyElements |-> 0]
            ELSE [q EXCEPT !.emptyElements = emptyElements]

-----------------------------------------------------------------------------
(* jsw.util.PairStorage and jsw.util.TripletStorage: a storage is the      *)
(* sequence of its tuples in insertion order.                              *)

PairStorage == <<>>

\* get(): the first elements.
pairFirsts(storage) == Distinct([i \in 1..Len(storage) |-> storage[i][1]])

\* get(first): the second elements stored with first.
pairGet(storage, first) ==
    LET isFirst(t) == t[1] = first
        sel == SelectSeq(storage, isFirst)
    IN [i \in 1..Len(sel) |-> sel[i][2]]

pairExists(storage, first, second) == Contains(storage, <<first, second>>)

\* existAll(first, second): second is null / undefined or an object whose keys are labels.
pairExistAll(storage, first, second) ==
    IF second.isNull THEN TRUE
    ELSE IF pairGet(storage, first) = <<>> THEN FALSE
    ELSE \A secondValue \in second.keys : pairExists(storage, first, secondValue)

pairAdd(storage, first, second) ==
    IF pairExists(storage, first, second) THEN storage
    ELSE Append(storage, <<first, second>>)

TripletStorage == <<>>

\* get(): the first elements.
tripletFirsts(storage) == Distinct([i \in 1..Len(storage) |-> storage[i][1]])

\* get(first): the second elements stored with first.
tripletSeconds(storage, first) ==
    LET isFirst(t) == t[1] = first
        sel == SelectSeq(storage, isFirst)
    IN Distinct([i \in 1..Len(sel) |-> sel[i][2]])

\* get(first, second): the third elements stored with first and second.
tripletGet(storage, first, second) ==
    LET isFirst(t) == t[1] = first /\ t[2] = second
        sel == SelectSeq(storage, isFirst)
    IN [i \in 1..Len(sel) |-> sel[i][3]]

tripletExists(storage, first, second, third) == Contains(storage, <<first, second, third>>)

tripletAdd(storage, first, second, third) ==
    IF tripletExists(storage, first, second, third) THEN storage
    ELSE Append(storage, <<first, second, third>>)

-----------------------------------------------------------------------------
(* jsw.owl.Ontology: entities[type] is the sequence of the IRIs of the     *)
(* entities of that type, in the order they were created.                  *)

EntityTypes == {ET_OPROP, ET_CLASS, ET_INDIVIDUAL}

Ontology ==
    [entities |-> [t \in EntityTypes |-> <<>>],
     axioms |-> <<>>,
     nextEntityNos |-> [t \in EntityTypes |-> 1]]

getEntityAutoPrefix(type) ==
    IF type = ET_CLASS THEN "C_" ELSE IF type = ET_OPROP THEN "OP_" ELSE "I_"

RECURSIVE freeEntityNo(_, _, _)
\* The loop of createNewIRI: the first number from nextEntityNo on whose IRI is not taken.
freeEntityNo(entities, entityPrefix, nextEntityNo) ==
    IF Contains(entities, entityPrefix \o ToString(nextEntityNo))
    THEN freeEntityNo(entities, entityPrefix, nextEntityNo + 1)
    ELSE nextEntityNo

\* createNewIRI(type): the new IRI and the ontology with the next number advanced.
createNewIRI(ont, type) ==
    LET no == freeEntityNo(ont.entities[type], getEntityAutoPrefix(type),
                           ont.nextEntityNos[type])
    IN [iri |-> getEntityAutoPrefix(type) \o ToString(no),
        ont |-> [ont EXCEPT !.nextEntityNos[type] = no + 1]]

\* createEntity(type, iri): returns the existing entity or adds a new one.
createEntity(ont, type, iri) ==
    IF Contains(ont.entities[type], iri) THEN ont
    ELSE [ont EXCEPT !.entities[type] = Append(@, iri)]

\* createEntity(type): an entity with a generated IRI.
createAutoEntity(ont, type) ==
    LET new == createNewIRI(ont, type)
    IN [entity |-> [type |-> type, IRI |-> new.iri],
        ont |-> [new.ont EXCEPT !.entities[type] = Append(@, new.iri)]]

containsClass(ont, iri) == Contains(ont.entities[ET_CLASS], iri)

containsObjectProperty(ont, iri) == Contains(ont.entities[ET_OPROP], iri)

getClasses(ont) == ont.entities[ET_CLASS]

getObjectProperties(ont) == ont.entities[ET_OPROP]

-----------------------------------------------------------------------------
(* The ontology the parser hands to the reasoner: every entity met while   *)
(* reading a statement is created, in reading order (parseEntity).         *)

RECURSIVE exprEntities(_)
\* The <<type, IRI>> of the entities of an expression, in reading order.
exprEntities(expr) ==
    IF expr.type \in EntityTypes THEN << <<expr.type, expr.IRI>> >>
    ELSE IF expr.type = CE_OBJ_VALUES_FROM
         THEN exprEntities(expr.opropExpr) \o exprEntities(expr.classExpr)
         ELSE Flatten([i \in 1..Len(expr.args) |-> exprEntities(expr.args[i])])

statementEntities(statement) ==
    IF statement.type = AXIOM_OPROP_SUB
    THEN exprEntities(statement.arg1) \o exprEntities(statement.arg2)
    ELSE IF statement.type = FACT_CLASS
    THEN exprEntities(statement.classExpr) \o exprEntities(statement.individual)
    ELSE IF statement.type = FACT_OPROP
    THEN exprEntities(statement.objectProperty) \o exprEntities(statement.leftIndividual)
             \o exprEntities(statement.rightIndividual)
    ELSE Flatten([i \in 1..Len(statement.args) |-> exprEntities(statement.args[i])])

RECURSIVE createEntities(_, _)
createEntities(ont, entities) ==
    IF entities = <<>> THEN ont
    ELSE createEntities(createEntity(ont, Head(entities)[1], Head(entities)[2]),
                        Tail(entities))

\* The Ontology object parse returns for a document with the given statements.
parse(statements) ==
    [createEntities(Ontology,
                    Flatten([i \in 1..Len(statements) |-> statementEntities(statements[i])]))
        EXCEPT !.axioms = statements]

-----------------------------------------------------------------------------
(* jsw.owl.Reasoner.prototype.normalizeOntology                            *)

\* What a rule returns: null, an array of statements, or an exception; with the
\* result ontology, to which the rule may have added new entities.
RuleNull(ont) == [res |-> "null", axioms |-> <<>>, ont |-> ont]
RuleAxioms(axioms, ont) == [res |-> "axioms", axioms |-> axioms, ont |-> ont]
RuleThrow(ont) == [res |-> "throw", axioms |-> <<>>, ont |-> ont]

\* copyEntities(): the entities of the source ontology put into a new Ontology.
copyEntities(source) == [Ontology EXCEPT !.entities = source.entities]

RECURSIVE chainRuleLoop(_, _, _, _, _)
\* rules[0], the for loop over opropIndex.
chainRuleLoop(srcChain, opropIndex, prevOprop, normalized, ont) ==
    IF opropIndex < Len(srcChain) - 1
    THEN LET new == createAutoEntity(ont, ET_OPROP)
         IN chainRuleLoop(srcChain, opropIndex + 1, new.entity,
                Append(normalized,
                       SubObjectPropertyOf(
                           ObjectPropertyChain(<<prevOprop, At(srcChain, opropIndex)>>),
                           new.entity)),
                new.ont)
    ELSE [prevOprop |-> prevOprop, normalized |-> normalized, ont |-> ont]

\* rules[0]: P1 o P2 o ... o Pn <= P, n > 2.
ruleChain(axiom, ont) ==
    IF axiom.type # AXIOM_OPROP_SUB THEN RuleNull(ont)
    ELSE IF "arg1" \notin DOMAIN axiom THEN RuleThrow(ont)  \* axiom.arg1 is undefined
    ELSE IF axiom.arg1.type # OPE_CHAIN THEN RuleNull(ont)
    ELSE IF Len(axiom.arg1.args) <= 2 THEN RuleNull(ont)
    ELSE LET srcChain == axiom.arg1.args
             first == createAutoEntity(ont, ET_OPROP)
             loop == chainRuleLoop(srcChain, 2, first.entity,
                        <<SubObjectPropertyOf(
                              ObjectPropertyChain(<<At(srcChain, 0), At(srcChain, 1)>>),
                              first.entity)>>,
                        first.ont)
         IN RuleAxioms(
                Append(loop.normalized,
                       SubObjectPropertyOf(
                           ObjectPropertyChain(
                               <<loop.prevOprop, At(srcChain, Len(srcChain) - 1)>>),
                           axiom.arg2)),
                loop.ont)

\* rules[1] emitting only the axioms whose first argument precedes the second.
ruleEquivalence_oneWay(axiom, ont) ==
    IF axiom.type \notin {AXIOM_CLASS_EQ, AXIOM_OPROP_EQ} THEN RuleNull(ont)
    ELSE LET resultAxiomType == IF axiom.type = AXIOM_CLASS_EQ
                                THEN AXIOM_CLASS_SUB ELSE AXIOM_OPROP_SUB
             args == axiom.args
             lastArgIndex == Len(args) - 1
             idx == DownFrom(lastArgIndex)
             row(argIndex1) ==
                 LET other(argIndex2) == argIndex1 < argIndex2
                     idx2 == SelectSeq(idx, other)
                 IN [k \in 1..Len(idx2) |->
                        [type |-> resultAxiomType,
                         args |-> <<At(args, argIndex1), At(args, idx2[k])>>]]
         IN IF lastArgIndex < 0 THEN RuleThrow(ont)
            ELSE RuleAxioms(Flatten([k \in 1..Len(idx) |-> row(idx[k])]), ont)

\* rules[1]: A1 = A2 = ... = An, classes or object properties.
ruleEquivalence(axiom, ont) ==
    IF axiom.type \notin {AXIOM_CLASS_EQ, AXIOM_OPROP_EQ} THEN RuleNull(ont)
    ELSE LET resultAxiomType == IF axiom.type = AXIOM_CLASS_EQ
                                THEN AXIOM_CLASS_SUB ELSE AXIOM_OPROP_SUB
             args == axiom.args
             lastArgIndex == Len(args) - 1
             idx == DownFrom(lastArgIndex)
             row(argIndex1) ==
                 LET other(argIndex2) == argIndex1 # argIndex2
                     idx2 == SelectSeq(idx, other)
                 IN [k \in 1..Len(idx2) |->
                        [type |-> resultAxiomType,
                         args |-> <<At(args, argIndex1), At(args, idx2[k])>>]]
         IN IF lastArgIndex < 0 THEN RuleThrow(ont)
            ELSE RuleAxioms(Flatten([k \in 1..Len(idx) |-> row(idx[k])]), ont)

\* rules[2]: A <= A1 n A2 n ... n An.
ruleIntersectRight(axiom, ont) ==
    IF axiom.type # AXIOM_CLASS_SUB THEN RuleNull(ont)
    ELSE IF At(axiom.args, 1).type # CE_INTERSECT THEN RuleNull(ont)
    ELSE LET exprs == At(axiom.args, 1).args
             idx == DownFrom(Len(exprs) - 1)
         IN IF Len(exprs) - 1 < 0 THEN RuleThrow(ont)
            ELSE RuleAxioms([k \in 1..Len(idx) |->
                                SubClassOf(At(axiom.args, 0), At(exprs, idx[k]))], ont)

\* rules[3]: C <= D, both complex.
ruleComplex(axiom, ont) ==
    IF axiom.type # AXIOM_CLASS_SUB THEN RuleNull(ont)
    ELSE IF At(axiom.args, 0).type = ET_CLASS THEN RuleNull(ont)
    ELSE IF At(axiom.args, 1).type = ET_CLASS THEN RuleNull(ont)
    ELSE LET new == createAutoEntity(ont, ET_CLASS)
         IN RuleAxioms(<<SubClassOf(At(axiom.args, 0), new.entity),
                         SubClassOf(new.entity, At(axiom.args, 1))>>, new.ont)

RECURSIVE intersectLeftLoop(_, _, _, _, _, _)
\* rules[4], the do-while loop over argIndex, from the last conjunct to the first.
intersectLeftLoop(args, argIndex, normalized, newIntersectArgs, ruleApplied, ont) ==
    IF argIndex < 0
    THEN [normalized |-> normalized, newIntersectArgs |-> newIntersectArgs,
          ruleApplied |-> ruleApplied, ont |-> ont]
    ELSE LET classExpr == At(args, argIndex)
             new == createAutoEntity(ont, ET_CLASS)
         IN IF classExpr.type # ET_CLASS
            THEN intersectLeftLoop(args, argIndex - 1,
                     Append(normalized, SubClassOf(new.entity, classExpr)),
                     Append(newIntersectArgs, new.entity), TRUE, new.ont)
            ELSE intersectLeftLoop(args, argIndex - 1, normalized,
                     Append(newIntersectArgs, classExpr), ruleApplied, ont)

\* rules[4]: C1 n C2 n ... Cn <= C, some Ci complex.
ruleIntersectLeft(axiom, ont) ==
    IF axiom.type # AXIOM_CLASS_SUB THEN RuleNull(ont)
    ELSE IF At(axiom.args, 0).type # CE_INTERSECT THEN RuleNull(ont)
    ELSE LET args == At(axiom.args, 0).args
             loop == intersectLeftLoop(args, Len(args) - 1, <<>>, <<>>, FALSE, ont)
         IN IF Len(args) - 1 < 0 THEN RuleThrow(ont)
            ELSE IF loop.ruleApplied
            THEN RuleAxioms(
                     Append(loop.normalized,
                            SubClassOf(ObjectIntersectionOf(loop.newIntersectArgs),
                                       At(axiom.args, 1))),
                     loop.ont)
            ELSE RuleNull(ont)

\* rules[5]: E P.A <= B, A complex.
ruleSomeLeft(axiom, ont) ==
    IF axiom.type # AXIOM_CLASS_SUB THEN RuleNull(ont)
    ELSE IF At(axiom.args, 0).type # CE_OBJ_VALUES_FROM THEN RuleNull(ont)
    ELSE IF At(axiom.args, 0).classExpr.type = ET_CLASS THEN RuleNull(ont)
    ELSE LET firstArg == At(axiom.args, 0)
             new == createAutoEntity(ont, ET_CLASS)
         IN RuleAxioms(
                <<SubClassOf(firstArg.classExpr, new.entity),
                  SubClassOf(ObjectSomeValuesFrom(firstArg.opropExpr, new.entity),
                             At(axiom.args, 1))>>,
                new.ont)

\* rules[6]: A <= E P.B, B complex.
ruleSomeRight(axiom, ont) ==
    IF axiom.type # AXIOM_CLASS_SUB THEN RuleNull(ont)
    ELSE IF At(axiom.args, 1).type # CE_OBJ_VALUES_FROM THEN RuleNull(ont)
    ELSE IF At(axiom.args, 1).classExpr.type = ET_CLASS THEN RuleNull(ont)
    ELSE LET secondArg == At(axiom.args, 1)
             new == createAutoEntity(ont, ET_CLASS)
         IN RuleAxioms(
                <<SubClassOf(secondArg.classExpr, new.entity),
                  SubClassOf(At(axiom.args, 0),
                             ObjectSomeValuesFrom(secondArg.opropExpr, new.entity))>>,
                new.ont)

\* rules[7] naming the class expression by an equivalence in place of a subsumption.
ruleClassAssertion_equivalent(statement, ont) ==
    IF statement.type # FACT_CLASS THEN RuleNull(ont)
    ELSE IF statement.classExpr.type = ET_CLASS THEN RuleNull(ont)
    ELSE LET new == createAutoEntity(ont, ET_CLASS)
         IN RuleAxioms(
                <<EquivalentClasses(<<new.entity, statement.classExpr>>),
                  ClassAssertion(new.entity, statement.individual)>>,
                new.ont)

\* rules[7]: a <= A, A complex.
ruleClassAssertion(statement, ont) ==
    IF statement.type # FACT_CLASS THEN RuleNull(ont)
    ELSE IF statement.classExpr.type = ET_CLASS THEN RuleNull(ont)
    ELSE LET new == createAutoEntity(ont, ET_CLASS)
         IN RuleAxioms(
                <<SubClassOf(new.entity, statement.classExpr),
                  ClassAssertion(new.entity, statement.individual)>>,
                new.ont)

\* rules[ruleIndex](axiom)
rules(ruleIndex, axiom, ont) ==
    CASE ruleIndex = 0 -> ruleChain(axiom, ont)
      [] ruleIndex = 1 -> ruleEquivalence(axiom, ont)
      [] ruleIndex = 2 -> ruleIntersectRight(axiom, ont)
      [] ruleIndex = 3 -> ruleComplex(axiom, ont)
      [] ruleIndex = 4 -> ruleIntersectLeft(axiom, ont)
      [] ruleIndex = 5 -> ruleSomeLeft(axiom, ont)
      [] ruleIndex = 6 -> ruleSomeRight(axiom, ont)
      [] ruleIndex = 7 -> ruleClassAssertion(axiom, ont)

lastRuleIndex == 7

RECURSIVE applyRules(_, _, _)
\* The do-while loop over ruleIndex, from the last rule to the first: the result of
\* the first rule that does not return null, with the index it stopped at (-1: none).
applyRules(ruleIndex, axiom, ont) ==
    LET resultAxioms == rules(ruleIndex, axiom, ont)
    IN IF resultAxioms.res # "null" THEN [ruleIndex |-> ruleIndex, out |-> resultAxioms]
       ELSE IF ruleIndex = 0 THEN [ruleIndex |-> -1, out |-> resultAxioms]
       ELSE applyRules(ruleIndex - 1, axiom, ont)

\* The statements of an array put into the queue from the last to the first.
enqueueDown(q, array) ==
    LET idx == DownFrom(Len(array) - 1)
    IN enqueueAll(q, [k \in 1..Len(idx) |-> At(array, idx[k])])

\* What the caller has seen of the last call: nothing yet, an exception of the
\* constructor (op names the function it left), or the outcome of a method.
NoResult == [op |-> "none", args |-> <<>>, thrown |-> FALSE, rows |-> <<>>, value |-> FALSE]
Exception(op) == [NoResult EXCEPT !.op = op, !.thrown = TRUE]

\* No TabControl has been made.
NoTabControl == [tabs |-> <<>>]

Unchanged_classification == UNCHANGED <<classSubsumers, edgeLabels, queues, nodes>>

\* normalizeOntology up to the main loop: copies the entities and fills the queue.
normalizeOntology ==
    /\ pc = "Reasoner"
    /\ resultOntology' = copyEntities(ontology)
    /\ IF Len(ontology.axioms) - 1 < 0
       THEN /\ queue' = queue
            /\ pc' = "buildObjectPropertySubsumerSets"
       ELSE /\ queue' = enqueueDown(Queue, ontology.axioms)
            /\ pc' = "normalizeOntology"
    /\ UNCHANGED <<ontology, objectPropertySubsumers, aBox, result>>
    /\ Unchanged_classification
    /\ UNCHANGED tabControl

\* One iteration of the main loop of normalizeOntology, and the return after the last.
normalizeAxiom ==
    /\ pc = "normalizeOntology"
    /\ ~isEmpty(queue)
    /\ LET axiom == dequeued(queue)
           rest == dequeue(queue)
           applied == applyRules(lastRuleIndex, axiom, resultOntology)
       IN IF applied.out.res = "throw"
          THEN /\ pc' = "thrown"
               /\ queue' = rest
               /\ resultOntology' = applied.out.ont
               /\ result' = Exception("normalizeOntology")
          ELSE IF applied.out.res = "axioms"
          THEN /\ pc' = pc
               /\ queue' = enqueueDown(rest, applied.out.axioms)
               /\ resultOntology' = applied.out.ont
               /\ result' = result
          ELSE /\ pc' = IF isEmpty(rest) THEN "buildObjectPropertySubsumerSets" ELSE pc
               /\ queue' = rest
               /\ resultOntology' = [resultOntology EXCEPT !.axioms = Append(@, axiom)]
               /\ result' = result
    /\ UNCHANGED <<ontology, objectPropertySubsumers, aBox>>
    /\ Unchanged_classification
    /\ UNCHANGED tabControl

-----------------------------------------------------------------------------
(* jsw.owl.Reasoner.prototype.buildObjectPropertySubsumerSets              *)

\* No object property taken for a subsumer of itself.
addReflexive_none(storage, objectProperties) == storage

RECURSIVE addReflexive(_, _)
\* Every object property is a subsumer for itself.
addReflexive(storage, objectProperties) ==
    IF objectProperties = <<>> THEN storage
    ELSE addReflexive(pairAdd(storage, Head(objectProperties), Head(objectProperties)),
                      Tail(objectProperties))

\* The selection of the axioms  r <= s  between object properties.
isSimpleOpropSub(axiom) ==
    IF axiom.type # AXIOM_OPROP_SUB THEN FALSE ELSE axiom.arg1.type = ET_OPROP

RECURSIVE addExplicit(_, _, _)
\* The subsumptions explicitly mentioned, read from the last axiom to the first.
addExplicit(storage, axioms, axiomIndex) ==
    IF axiomIndex < 0 THEN storage
    ELSE LET axiom == At(axioms, axiomIndex)
         IN addExplicit(
                IF isSimpleOpropSub(axiom)
                THEN pairAdd(storage, axiom.arg1.IRI, axiom.arg2.IRI)
                ELSE storage,
                axioms, axiomIndex - 1)

RECURSIVE addNewSubsumers(_, _, _, _)
\* The for-in loop over the subsumers of a dequeued property.
addNewSubsumers(storage, q, objectProperty, subsumers) ==
    IF subsumers = <<>> THEN [storage |-> storage, queue |-> q]
    ELSE LET subsumer == Head(subsumers)
         IN IF ~pairExists(storage, objectProperty, subsumer)
            THEN addNewSubsumers(pairAdd(storage, objectProperty, subsumer),
                                 enqueue(q, subsumer), objectProperty, Tail(subsumers))
            ELSE addNewSubsumers(storage, q, objectProperty, Tail(subsumers))

\* The while loop left out: only the explicit subsumptions.
discoverSubsumers_none(storage, q, objectProperty) == storage

RECURSIVE discoverSubsumers(_, _, _)
\* The while loop: implicit subsumptions via intermediate object properties.
discoverSubsumers(storage, q, objectProperty) ==
    IF isEmpty(q) THEN storage
    ELSE LET step == addNewSubsumers(storage, dequeue(q), objectProperty,
                                     pairGet(storage, dequeued(q)))
         IN discoverSubsumers(step.storage, step.queue, objectProperty)

RECURSIVE closeSubsumers(_, _)
\* The second for-in loop over the object properties.
closeSubsumers(storage, objectProperties) ==
    IF objectProperties = <<>> THEN storage
    ELSE LET objectProperty == Head(objectProperties)
         IN closeSubsumers(
                discoverSubsumers(storage,
                                  enqueueAll(Queue, pairGet(storage, objectProperty)),
                                  objectProperty),
                Tail(objectProperties))

buildObjectPropertySubsumerSets(ont) ==
    LET reflexive == addReflexive(PairStorage, getObjectProperties(ont))
    IN IF Len(ont.axioms) - 1 < 0 THEN reflexive
       ELSE closeSubsumers(addExplicit(reflexive, ont.axioms, Len(ont.axioms) - 1),
                           getObjectProperties(ont))

-----------------------------------------------------------------------------
(* jsw.owl.Reasoner.prototype.buildChainSubsumerSets                       *)

isChainSub(axiom) ==
    IF axiom.type # AXIOM_OPROP_SUB THEN FALSE ELSE axiom.arg1.type = OPE_CHAIN

RECURSIVE chainSubsumerLoop(_, _, _)
chainSubsumerLoop(sets, axioms, axiomIndex) ==
    IF axiomIndex < 0 THEN sets
    ELSE LET axiom == At(axioms, axiomIndex)
             leftOprop == At(axiom.arg1.args, 0).IRI
             rightOprop == At(axiom.arg1.args, 1).IRI
             chainSubsumer == axiom.arg2.IRI
         IN chainSubsumerLoop(
                IF isChainSub(axiom)
                THEN [left |-> tripletAdd(sets.left, leftOprop, rightOprop, chainSubsumer),
                      right |-> tripletAdd(sets.right, rightOprop, leftOprop, chainSubsumer)]
                ELSE sets,
                axioms, axiomIndex - 1)

buildChainSubsumerSets(ont) ==
    chainSubsumerLoop([left |-> TripletStorage, right |-> TripletStorage],
                      ont.axioms, Len(ont.axioms) - 1)

-----------------------------------------------------------------------------
(* jsw.owl.Reasoner.prototype.buildClassSubsumerSets.  The functions below *)
(* work on  st = [classSubsumers, edgeLabels, queues, nodes]  and read the  *)
(* axioms of the normalized ontology.                                      *)

\* reqLabels of an instruction: null or undefined, or an object with labels as keys.
NoLabels == [isNull |-> TRUE, keys |-> {}]
Labels(keys) == [isNull |-> FALSE, keys |-> keys]

LabelNodeInstruction(node, label, reqLabels) ==
    [type |-> 0, node |-> node, label |-> label, reqLabels |-> reqLabels]

LabelEdgeInstruction(node1, node2, label) ==
    [type |-> 1, node1 |-> node1, node2 |-> node2, label |-> label]

\* canUseForLabelNodeInstruction looking at the first class of an intersection only.
canUseForLabelNodeInstruction_firstConjunct(axiom, classIri) ==
    IF axiom.type # AXIOM_CLASS_SUB THEN FALSE
    ELSE LET firstArg == At(axiom.args, 0)
         IN IF firstArg.type = ET_CLASS /\ firstArg.IRI = classIri THEN TRUE
            ELSE IF firstArg.type # CE_INTERSECT THEN FALSE
            ELSE IRI(firstArg.args[1]) = classIri

canUseForLabelNodeInstruction(axiom, classIri) ==
    IF axiom.type # AXIOM_CLASS_SUB THEN FALSE
    ELSE LET firstArg == At(axiom.args, 0)
         IN IF firstArg.type = ET_CLASS /\ firstArg.IRI = classIri THEN TRUE
            ELSE IF firstArg.type # CE_INTERSECT THEN FALSE
            ELSE \E i \in 1..Len(firstArg.args) : IRI(firstArg.args[i]) = classIri

\* The instruction made for the node a, the class found on the left of the axiom.
labelNodeIfInstruction_forLabel(axiom, a, b) ==
    LET firstArg == At(axiom.args, 0)
        reqLabels == IF firstArg.type = CE_INTERSECT
                     THEN Labels({IRI(firstArg.args[i]) : i \in 1..Len(firstArg.args)} \ {a})
                     ELSE NoLabels
    IN LabelNodeInstruction(a, IRI(At(axiom.args, 1)), reqLabels)

\* The instruction addLabelNodeIfInstructions makes of one axiom.
labelNodeIfInstruction(axiom, a, b) ==
    LET firstArg == At(axiom.args, 0)
        reqLabels == IF firstArg.type = CE_INTERSECT
                     THEN Labels({IRI(firstArg.args[i]) : i \in 1..Len(firstArg.args)} \ {a})
                     ELSE NoLabels
    IN LabelNodeInstruction(b, IRI(At(axiom.args, 1)), reqLabels)

\* The axioms as the instruction functions read them, from the last to the first.
axiomsDown(axioms) ==
    LET idx == DownFrom(Len(axioms) - 1)
    IN [k \in 1..Len(idx) |-> At(axioms, idx[k])]

\* addLabelNodeIfInstructions(a, b): the instructions it puts into the queue of b.
addLabelNodeIfInstructions(axioms, a, b) ==
    LET usable(axiom) == canUseForLabelNodeInstruction(axiom, a)
        sel == SelectSeq(axiomsDown(axioms), usable)
    IN [k \in 1..Len(sel) |-> labelNodeIfInstruction(sel[k], a, b)]

\* addLabelNodeInstructions(p, a, b): the instructions it puts into the queue of b.
addLabelNodeInstructions(axioms, p, a, b) ==
    LET usable(axiom) ==
            IF axiom.type # AXIOM_CLASS_SUB THEN FALSE
            ELSE IF At(axiom.args, 0).type # CE_OBJ_VALUES_FROM THEN FALSE
            ELSE LET oprop == At(axiom.args, 0).opropExpr
                     classExpr == At(axiom.args, 0).classExpr
                 IN /\ oprop.type = ET_OPROP
                    /\ oprop.IRI = p
                    /\ classExpr.type = ET_CLASS
                    /\ classExpr.IRI = a
        sel == SelectSeq(axiomsDown(axioms), usable)
    IN [k \in 1..Len(sel) |-> LabelNodeInstruction(b, IRI(At(sel[k].args, 1)), NoLabels)]

\* addLabelEdgeInstructions(a, b): the instructions it puts into the queue of b.
addLabelEdgeInstructions(axioms, a, b) ==
    LET usable(axiom) ==
            IF "args" \notin DOMAIN axiom THEN FALSE
            ELSE IF axiom.type # AXIOM_CLASS_SUB THEN FALSE
            ELSE LET firstArg == At(axiom.args, 0)
                     secondArg == At(axiom.args, 1)
                 IN /\ firstArg.type = ET_CLASS
                    /\ firstArg.IRI = a
                    /\ secondArg.type = CE_OBJ_VALUES_FROM
        sel == SelectSeq(axiomsDown(axioms), usable)
    IN [k \in 1..Len(sel) |->
           LabelEdgeInstruction(b, IRI(At(sel[k].args, 1).classExpr),
                                IRI(At(sel[k].args, 1).opropExpr))]

\* The instructions put into the queue of a node.
enqueueTo(st, node, instructions) ==
    [st EXCEPT !.queues[node] = enqueueAll(@, instructions)]

\* addInstructions(a, b)
addInstructions(st, axioms, a, b) ==
    enqueueTo(st, b, addLabelNodeIfInstructions(axioms, a, b)
                         \o addLabelEdgeInstructions(axioms, a, b))

\* initialiseNode(classIri)
initialiseNode(st, axioms, classIri) ==
    LET labelled == [st EXCEPT
            !.classSubsumers = pairAdd(@, classIri, classIri),
            !.queues = [n \in DOMAIN st.queues \cup {classIri} |->
                           IF n = classIri THEN Queue ELSE st.queues[n]],
            !.nodes = IF Contains(@, classIri) THEN @ ELSE Append(@, classIri)]
    IN addInstructions(labelled, axioms, classIri, classIri)

RECURSIVE initialiseClasses(_, _, _)
\* initialise(), the for-in loop over the classes of the ontology.
initialiseClasses(st, axioms, classes) ==
    IF classes = <<>> THEN st
    ELSE LET classIri == Head(classes)
             node == initialiseNode(st, axioms, classIri)
             labelled == [node EXCEPT !.classSubsumers = pairAdd(@, classIri, THING)]
         IN initialiseClasses(addInstructions(labelled, axioms, THING, classIri),
                              axioms, Tail(classes))

\* initialise()
initialise(ont) ==
    initialiseClasses(
        initialiseNode([classSubsumers |-> PairStorage, edgeLabels |-> TripletStorage,
                        queues |-> <<>>, nodes |-> <<>>],
                       ont.axioms, THING),
        ont.axioms, getClasses(ont))

RECURSIVE enqueueForEach(_, _, _, _, _)
\* processNewEdge, the for-in loop over the subsumers c of b: addLabelNodeInstructions(q, c, a).
enqueueForEach(st, axioms, q, cs, a) ==
    IF cs = <<>> THEN st
    ELSE enqueueForEach(enqueueTo(st, a, addLabelNodeInstructions(axioms, q, Head(cs), a)),
                        axioms, q, Tail(cs), a)

\* The <<r, s, c>> the loops over a chain storage and the classes visit for q.
chainItems(chains, q, classes) ==
    LET rs == tripletSeconds(chains, q)
        forR(r) == LET ss == tripletGet(chains, q, r)
                   IN Flatten([j \in 1..Len(ss) |->
                                  [k \in 1..Len(classes) |-> <<r, ss[j], classes[k]>>]])
    IN Flatten([i \in 1..Len(rs) |-> forR(rs[i])])

RECURSIVE processNewEdge(_, _, _, _, _)
RECURSIVE newEdgeLoop(_, _, _, _, _, _, _)
RECURSIVE rightChainLoop(_, _, _, _, _)
RECURSIVE leftChainLoop(_, _, _, _, _)

\* processNewEdge, R o Q <= S: for R: C -> A label the edge (C, B) with S.
rightChainLoop(st, ctx, a, b, items) ==
    IF items = <<>> THEN st
    ELSE LET r == Head(items)[1]
             s == Head(items)[2]
             c == Head(items)[3]
         IN rightChainLoop(
                IF tripletExists(st.edgeLabels, c, a, r) /\ ~tripletExists(st.edgeLabels, c, b, s)
                THEN processNewEdge(st, ctx, c, b, s)
                ELSE st,
                ctx, a, b, Tail(items))

\* processNewEdge, Q o R <= S: for R: B -> C label the edge (A, C) with S.
leftChainLoop(st, ctx, a, b, items) ==
    IF items = <<>> THEN st
    ELSE LET r == Head(items)[1]
             s == Head(items)[2]
             c == Head(items)[3]
         IN leftChainLoop(
                IF tripletExists(st.edgeLabels, b, c, r) /\ ~tripletExists(st.edgeLabels, a, c, s)
                THEN processNewEdge(st, ctx, a, c, s)
                ELSE st,
                ctx, a, b, Tail(items))

\* processNewEdge, the for-in loop over the subsumers q of p.
newEdgeLoop(st, ctx, a, b, qs, classes, bSubsumers) ==
    IF qs = <<>> THEN st
    ELSE LET q == Head(qs)
             added == [st EXCEPT !.edgeLabels = tripletAdd(@, a, b, q)]
             noded == enqueueForEach(added, ctx.axioms, q, bSubsumers, a)
             righted == rightChainLoop(noded, ctx, a, b,
                                       chainItems(ctx.chainSubsumers.right, q, classes))
             lefted == leftChainLoop(righted, ctx, a, b,
                                     chainItems(ctx.chainSubsumers.left, q, classes))
         IN newEdgeLoop(lefted, ctx, a, b, Tail(qs), classes, bSubsumers)

\* processNewEdge(a, b, p);  ctx = [axioms, objectPropertySubsumers, chainSubsumers]
processNewEdge(st, ctx, a, b, p) ==
    newEdgeLoop(st, ctx, a, b, pairGet(ctx.objectPropertySubsumers, p),
                pairFirsts(st.classSubsumers), pairGet(st.classSubsumers, b))

\* if (edgeLabels.exists(a, b, p)) of processLabelEdgeInstruction
edgeIsProcessed(edges, a, b, p) == tripletExists(edges, a, b, p)

\* processLabelEdgeInstruction(instruction)
processLabelEdgeInstruction(st, ctx, instruction) ==
    LET p == instruction.label
        a == instruction.node1
        b == instruction.node2
    IN IF edgeIsProcessed(st.edgeLabels, a, b, p)
       THEN processNewEdge(st, ctx, a, b, p)
       ELSE st

RECURSIVE updateLinkedNodes(_, _, _, _, _)
\* processLabelNodeInstruction, the for-in loops over the edges (c, a) and their labels p.
updateLinkedNodes(st, axioms, a, b, cs) ==
    IF cs = <<>> THEN st
    ELSE LET c == Head(cs)
             ps == tripletGet(st.edgeLabels, c, a)
         IN updateLinkedNodes(
                enqueueTo(st, c,
                          Flatten([k \in 1..Len(ps) |->
                                      addLabelNodeInstructions(axioms, ps[k], b, c)])),
                axioms, a, b, Tail(cs))

\* The required labels looked for on the node of the label b, not on the node a.
labelIsDropped_onLabel(subsumers, a, b, reqLabels) ==
    pairExists(subsumers, a, b) \/ ~pairExistAll(subsumers, b, reqLabels)

\* if (subsumers.exists(a, b) || !subsumers.existAll(a, instruction.reqLabels)) return;
labelIsDropped(subsumers, a, b, reqLabels) ==
    pairExists(subsumers, a, b) \/ ~pairExistAll(subsumers, a, reqLabels)

\* processLabelNodeInstruction without the call addLabelNodeIfInstructions(b, a).
processLabelNodeInstruction_unseeded(st, ctx, instruction) ==
    LET a == instruction.node
        b == instruction.label
    IN IF labelIsDropped(st.classSubsumers, a, b, instruction.reqLabels) THEN st
       ELSE LET added == [st EXCEPT !.classSubsumers = pairAdd(@, a, b)]
            IN updateLinkedNodes(added, ctx.axioms, a, b, tripletFirsts(added.edgeLabels))

\* processLabelNodeInstruction(instruction)
processLabelNodeInstruction(st, ctx, instruction) ==
    LET a == instruction.node
        b == instruction.label
    IN IF labelIsDropped(st.classSubsumers, a, b, instruction.reqLabels) THEN st
       ELSE LET added == [st EXCEPT !.classSubsumers = pairAdd(@, a, b)]
                seeded == enqueueTo(added, a, addLabelNodeIfInstructions(ctx.axioms, b, a))
            IN updateLinkedNodes(seeded, ctx.axioms, a, b, tripletFirsts(seeded.edgeLabels))

\* The nodes whose queue is not empty, in the order of the for-in loop over queues.
busyNodes(st) ==
    LET busy(node) == ~isEmpty(st.queues[node]) IN SelectSeq(st.nodes, busy)

-----------------------------------------------------------------------------
(* jsw.owl.Reasoner.prototype.rewriteAbox                                  *)

\* Every subsumer taken for a class of the original ontology.
isOriginalClass_all(original, classIri) == TRUE

\* if (originalOntology.containsClass(classIri))
isOriginalClass(original, classIri) == containsClass(original, classIri)

RECURSIVE addClasses(_, _, _, _)
\* rewriteClassAssertions, the for-in loop over the subsumers of the asserted class.
addClasses(individualClasses, original, individualIri, subsumerIris) ==
    IF subsumerIris = <<>> THEN individualClasses
    ELSE addClasses(
             IF isOriginalClass(original, Head(subsumerIris))
             THEN pairAdd(individualClasses, individualIri, Head(subsumerIris))
             ELSE individualClasses,
             original, individualIri, Tail(subsumerIris))

RECURSIVE individualClassesLoop(_, _, _, _, _)
\* rewriteClassAssertions, the do-while loop over the axioms.
individualClassesLoop(individualClasses, original, subsumerSets, axioms, axiomIndex) ==
    IF axiomIndex < 0 THEN individualClasses
    ELSE LET axiom == At(axioms, axiomIndex)
         IN individualClassesLoop(
                IF axiom.type # FACT_CLASS THEN individualClasses
                ELSE addClasses(individualClasses, original, axiom.individual.IRI,
                                pairGet(subsumerSets, IRI(axiom.classExpr))),
                original, subsumerSets, axioms, axiomIndex - 1)

\* The rows pushed for one individual.
classAssertionRow(individualIri, classIri) ==
    [individual |-> individualIri, className |-> classIri]

\* rewriteClassAssertions()
rewriteClassAssertions(ont, original, subsumerSets) ==
    IF Len(ont.axioms) - 1 < 0 THEN <<>>
    ELSE LET individualClasses ==
                 individualClassesLoop(PairStorage, original, subsumerSets, ont.axioms,
                                       Len(ont.axioms) - 1)
             individuals == pairFirsts(individualClasses)
             rows(individualIri) ==
                 LET classIris == pairGet(individualClasses, individualIri)
                 IN [k \in 1..Len(classIris) |->
                        classAssertionRow(individualIri, classIris[k])]
         IN Flatten([i \in 1..Len(individuals) |-> rows(individuals[i])])

RECURSIVE addForSubsumers(_, _, _, _)
\* for (opropSubsumer in subsumers.get(...)) if (!storage.exists(...)) storage.add(...)
addForSubsumers(acc, opropSubsumers, leftInd, rightInd) ==
    IF opropSubsumers = <<>> THEN acc
    ELSE addForSubsumers(
             IF ~tripletExists(acc.storage, Head(opropSubsumers), leftInd, rightInd)
             THEN [storage |-> tripletAdd(acc.storage, Head(opropSubsumers), leftInd, rightInd),
                   changesHappened |-> TRUE]
             ELSE acc,
             Tail(opropSubsumers), leftInd, rightInd)

RECURSIVE assertedLoop(_, _, _, _)
\* rewriteObjectPropertyAssertions, the first loop: asserted facts under role subsumption.
assertedLoop(storage, subsumers, axioms, axiomIndex) ==
    IF axiomIndex < 0 THEN storage
    ELSE LET axiom == At(axioms, axiomIndex)
         IN assertedLoop(
                IF axiom.type # FACT_OPROP THEN storage
                ELSE addForSubsumers([storage |-> storage, changesHappened |-> FALSE],
                                     pairGet(subsumers, axiom.objectProperty.IRI),
                                     axiom.leftIndividual.IRI,
                                     axiom.rightIndividual.IRI).storage,
                subsumers, axioms, axiomIndex - 1)

\* The derived triple ending in the individual in the middle of the chain.
chainTarget_center(centerInd, rightInd) == centerInd

\* The individual the derived triple ends in: rightInd.
chainTarget(centerInd, rightInd) == rightInd

RECURSIVE rightIndLoop(_, _, _, _, _)
rightIndLoop(acc, opropSubsumers, leftInd, centerInd, rightInds) ==
    IF rightInds = <<>> THEN acc
    ELSE rightIndLoop(addForSubsumers(acc, opropSubsumers, leftInd,
                                      chainTarget(centerInd, Head(rightInds))),
                      opropSubsumers, leftInd, centerInd, Tail(rightInds))

RECURSIVE centerIndLoop(_, _, _, _, _)
centerIndLoop(acc, opropSubsumers, rightOprop, leftInd, centerInds) ==
    IF centerInds = <<>> THEN acc
    ELSE centerIndLoop(
             rightIndLoop(acc, opropSubsumers, leftInd, Head(centerInds),
                          tripletGet(acc.storage, rightOprop, Head(centerInds))),
             opropSubsumers, rightOprop, leftInd, Tail(centerInds))

RECURSIVE leftIndLoop(_, _, _, _, _)
leftIndLoop(acc, opropSubsumers, leftOprop, rightOprop, leftInds) ==
    IF leftInds = <<>> THEN acc
    ELSE leftIndLoop(
             centerIndLoop(acc, opropSubsumers, rightOprop, Head(leftInds),
                           tripletGet(acc.storage, leftOprop, Head(leftInds))),
             opropSubsumers, leftOprop, rightOprop, Tail(leftInds))

\* The subsumers under which a triple derived by a chain with subsumer q is stored.
chainSubsumers(subsumers, chainSubsumer) == pairGet(subsumers, chainSubsumer)

RECURSIVE chainPass(_, _, _, _)
\* rewriteObjectPropertyAssertions, one pass of the inner do-while loop over the axioms.
\* Each for-in loop visits the keys its object has when the loop starts; keys added
\* meanwhile are found by the next pass.
chainPass(acc, subsumers, axioms, axiomIndex) ==
    IF axiomIndex < 0 THEN acc
    ELSE LET axiom == At(axioms, axiomIndex)
             leftOprop == At(axiom.arg1.args, 0).IRI
             rightOprop == At(axiom.arg1.args, 1).IRI
         IN chainPass(
                IF ~isChainSub(axiom) THEN acc
                ELSE leftIndLoop(acc, chainSubsumers(subsumers, axiom.arg2.IRI),
                                 leftOprop, rightOprop,
                                 tripletSeconds(acc.storage, leftOprop)),
                subsumers, axioms, axiomIndex - 1)

RECURSIVE chainClosure(_, _, _)
\* rewriteObjectPropertyAssertions, the outer do-while (changesHappened) loop.
chainClosure(storage, subsumers, axioms) ==
    LET pass == chainPass([storage |-> storage, changesHappened |-> FALSE], subsumers,
                          axioms, Len(axioms) - 1)
    IN IF pass.changesHappened THEN chainClosure(pass.storage, subsumers, axioms)
       ELSE pass.storage

\* Every object property of the storage rewritten, the minted ones too.
isRewritten_all(original, oprop) == TRUE

\* if (!originalOntology.containsObjectProperty(oprop)) continue;
isRewritten(original, oprop) == containsObjectProperty(original, oprop)

opropAssertionRow(oprop, leftInd, rightInd) ==
    [objectProperty |-> oprop, leftIndividual |-> leftInd, rightIndividual |-> rightInd]

\* rewriteObjectPropertyAssertions()
rewriteObjectPropertyAssertions(ont, original, subsumers) ==
    IF Len(ont.axioms) - 1 < 0 THEN <<>>
    ELSE LET asserted == assertedLoop(TripletStorage, subsumers, ont.axioms,
                                      Len(ont.axioms) - 1)
             storage == chainClosure(asserted, subsumers, ont.axioms)
             keep(oprop) == isRewritten(original, oprop)
             oprops == SelectSeq(tripletFirsts(storage), keep)
             rowsOf(oprop, leftInd) ==
                 LET rightInds == tripletGet(storage, oprop, leftInd)
                 IN [k \in 1..Len(rightInds) |-> opropAssertionRow(oprop, leftInd, rightInds[k])]
             rows(oprop) ==
                 LET leftInds == tripletSeconds(storage, oprop)
                 IN Flatten([j \in 1..Len(leftInds) |-> rowsOf(oprop, leftInds[j])])
         IN Flatten([i \in 1..Len(oprops) |-> rows(oprops[i])])

-----------------------------------------------------------------------------
(* jsw.owl.Reasoner.prototype.isSubclass                                   *)

Returned(value) == [thrown |-> FALSE, value |-> value]
Thrown == [thrown |-> TRUE, value |-> FALSE]

\* isSubclass without the test of class2.
isSubclass_unchecked(original, subsumers, class1, class2) ==
    IF ~Contains(getClasses(original), class1) THEN Thrown
    ELSE Returned(pairExists(subsumers, class1, class2))

isSubclass(original, subsumers, class1, class2) ==
    IF ~Contains(getClasses(original), class1) THEN Thrown
    ELSE IF ~Contains(getClasses(original), class2) THEN Thrown
    ELSE Returned(pairExists(subsumers, class1, class2))

-----------------------------------------------------------------------------
(* The constructor jsw.owl.Reasoner, after normalizeOntology.              *)

context ==
    [axioms |-> resultOntology.axioms,
     objectPropertySubsumers |-> objectPropertySubsumers,
     chainSubsumers |-> buildChainSubsumerSets(resultOntology)]

\* objectPropertySubsumers = this.buildObjectPropertySubsumerSets(normalizedOntology)
buildObjectPropertySubsumers ==
    /\ pc = "buildObjectPropertySubsumerSets"
    /\ objectPropertySubsumers' = buildObjectPropertySubsumerSets(resultOntology)
    /\ pc' = "initialise"
    /\ UNCHANGED <<ontology, queue, resultOntology, aBox, result>>
    /\ Unchanged_classification
    /\ UNCHANGED tabControl

\* buildClassSubsumerSets up to the main loop: initialise().  Without axioms the
\* do-while loops of the instruction functions read axioms[-1] and throw.
initialiseQueues ==
    /\ pc = "initialise"
    /\ IF Len(resultOntology.axioms) = 0
       THEN /\ pc' = "thrown"
            /\ result' = Exception("buildClassSubsumerSets")
            /\ Unchanged_classification
       ELSE LET st == initialise(resultOntology)
            IN /\ classSubsumers' = st.classSubsumers
               /\ edgeLabels' = st.edgeLabels
               /\ queues' = st.queues
               /\ nodes' = st.nodes
               /\ result' = result
               /\ pc' = IF busyNodes(st) = <<>> THEN "rewriteAbox"
                        ELSE "buildClassSubsumerSets"
    /\ UNCHANGED <<ontology, queue, resultOntology, objectPropertySubsumers, aBox>>
    /\ UNCHANGED tabControl

\* The oldest instruction of the queue processed and left in the queue.
processQueue_kept(st, ctx, node) ==
    LET instruction == dequeued(st.queues[node])
    IN IF instruction.type = 0
       THEN processLabelNodeInstruction(st, ctx, instruction)
       ELSE processLabelEdgeInstruction(st, ctx, instruction)

\* The body of the main loop for the queue of a node: the oldest instruction of the
\* queue is taken and processed.
processQueue(st, ctx, node) ==
    LET instruction == dequeued(st.queues[node])
        taken == [st EXCEPT !.queues[node] = dequeue(@)]
    IN IF instruction.type = 0
       THEN processLabelNodeInstruction(taken, ctx, instruction)
       ELSE processLabelEdgeInstruction(taken, ctx, instruction)

\* The state of buildClassSubsumerSets between two iterations of its main loop.
classification ==
    [classSubsumers |-> classSubsumers, edgeLabels |-> edgeLabels,
     queues |-> queues, nodes |-> nodes]

\* One iteration of the main loop of buildClassSubsumerSets: the oldest instruction of
\* the first queue which is not empty, and the return when no queue has one left.
processInstruction ==
    /\ pc = "buildClassSubsumerSets"
    /\ busyNodes(classification) # <<>>
    /\ LET done == processQueue(classification, context, Head(busyNodes(classification)))
       IN /\ classSubsumers' = done.classSubsumers
          /\ edgeLabels' = done.edgeLabels
          /\ queues' = done.queues
          /\ nodes' = done.nodes
          /\ pc' = IF busyNodes(done) = <<>> THEN "rewriteAbox" ELSE pc
    /\ UNCHANGED <<ontology, queue, resultOntology, objectPropertySubsumers, aBox, result>>
    /\ UNCHANGED tabControl

\* this.aBox = this.rewriteAbox(normalizedOntology, objectPropertySubsumers)
rewriteAbox ==
    /\ pc = "rewriteAbox"
    /\ aBox' = [ClassAssertion |->
                    rewriteClassAssertions(resultOntology, ontology, classSubsumers),
                ObjectPropertyAssertion |->
                    rewriteObjectPropertyAssertions(resultOntology, ontology,
                                                    objectPropertySubsumers)]
    /\ pc' = "ready"
    /\ UNCHANGED <<ontology, queue, resultOntology, objectPropertySubsumers, result>>
    /\ Unchanged_classification
    /\ UNCHANGED tabControl

\* The IRIs isSubclass is called with: the classes of the ontology, the classes of
\* the normalized ontology, and an IRI that names nothing.
CalledClasses ==
    Range(getClasses(ontology)) \cup Range(getClasses(resultOntology)) \cup {THING, "Nothing"}

\* reasoner.isSubclass(class1, class2)
callIsSubclass ==
    /\ pc = "ready"
    /\ \E class1 \in CalledClasses, class2 \in CalledClasses :
           LET r == isSubclass(ontology, classSubsumers, class1, class2)
           IN result' = [op |-> "isSubclass", args |-> <<class1, class2>>,
                         thrown |-> r.thrown, rows |-> <<>>, value |-> r.value]
    /\ UNCHANGED <<pc, ontology, queue, resultOntology, objectPropertySubsumers, aBox>>
    /\ Unchanged_classification
    /\ UNCHANGED tabControl

Construct ==
    \/ normalizeOntology
    \/ normalizeAxiom
    \/ buildObjectPropertySubsumers
    \/ initialiseQueues
    \/ processInstruction
    \/ rewriteAbox

Next == Construct \/ callIsSubclass

\* The state before  new jsw.owl.Reasoner(ontology)  for the parsed statements.
InitWith(statements) ==
    /\ pc = "Reasoner"
    /\ ontology = parse(statements)
    /\ queue = Queue
    /\ resultOntology = Ontology
    /\ objectPropertySubsumers = PairStorage
    /\ classSubsumers = PairStorage
    /\ edgeLabels = TripletStorage
    /\ queues = <<>>
    /\ nodes = <<>>
    /\ aBox = [ClassAssertion |-> <<>>, ObjectPropertyAssertion |-> <<>>]
    /\ result = NoResult
    /\ tabControl = NoTabControl

\* The documents: at most max statements of a pool, in the order of the pool.
Documents(pool, max) ==
    {[k \in 1..Cardinality(S) |-> pool[Ascending(S)[k]]] :
        S \in SubsetsUpTo(1..Len(pool), max)}

A == Class("A")
B == Class("B")
C == Class("C")
D == Class("D")
r == ObjectProperty("r")
s == ObjectProperty("s")
a == NamedIndividual("a")
b == NamedIndividual("b")

MaxAxioms == 3

\* Class axioms and class assertions.
TBoxPool ==
    <<SubClassOf(A, B),
      SubClassOf(B, C),
      SubClassOf(C, D),
      SubClassOf(C, A),
      SubClassOf(A, ObjectSomeValuesFrom(r, B)),
      SubClassOf(ObjectSomeValuesFrom(r, C), D),
      SubClassOf(ObjectSomeValuesFrom(r, B), D),
      EquivalentClasses(<<A, B>>),
      EquivalentClasses(<<B, C, D>>),
      SubClassOf(ObjectIntersectionOf(<<A, B>>), C),
      SubObjectPropertyOf(r, s),
      SubClassOf(ObjectSomeValuesFrom(s, B), C),
      ClassAssertion(A, a),
      ClassAssertion(B, a),
      ClassAssertion(ObjectSomeValuesFrom(r, B), b),
      SubClassOf(D, ObjectIntersectionOf(<<A, ObjectSomeValuesFrom(r, C)>>)),
      SubClassOf(Class(THING), B)>>

Init == \E statements \in Documents(TBoxPool, MaxAxioms) : InitWith(statements)

Spec == Init /\ [][Next]_vars

-----------------------------------------------------------------------------
(* Properties of class subsumption.                                        *)

ClassesOf(ont) == Range(getClasses(ont))
AxiomsOf(ont) == Range(ont.axioms)

isAtom(expr) == expr.type = ET_CLASS
isSome(expr) == expr.type = CE_OBJ_VALUES_FROM /\ isAtom(expr.classExpr)
isConjunction(expr) ==
    expr.type = CE_INTERSECT /\ \A k \in 1..Len(expr.args) : isAtom(expr.args[k])
Conjuncts(expr) ==
    IF isAtom(expr) THEN {expr.IRI} ELSE {expr.args[k].IRI : k \in 1..Len(expr.args)}

\* The normal forms NF-A to NF-H.
isNFA(x) == x.type = AXIOM_CLASS_SUB /\ isAtom(x.args[1]) /\ isAtom(x.args[2])
isNFB(x) == x.type = AXIOM_CLASS_SUB /\ isConjunction(x.args[1]) /\ isAtom(x.args[2])
isNFC(x) == x.type = AXIOM_CLASS_SUB /\ isAtom(x.args[1]) /\ isSome(x.args[2])
isNFD(x) == x.type = AXIOM_CLASS_SUB /\ isSome(x.args[1]) /\ isAtom(x.args[2])
isNFE(x) ==
    /\ x.type = AXIOM_OPROP_SUB
    /\ {"arg1", "arg2"} \subseteq DOMAIN x
    /\ x.arg1.type = ET_OPROP
    /\ x.arg2.type = ET_OPROP
isNFF(x) ==
    /\ x.type = AXIOM_OPROP_SUB
    /\ {"arg1", "arg2"} \subseteq DOMAIN x
    /\ x.arg1.type = OPE_CHAIN
    /\ Len(x.arg1.args) = 2
    /\ x.arg2.type = ET_OPROP
isNFG(x) == x.type = FACT_CLASS /\ isAtom(x.classExpr)
isNFH(x) == x.type = FACT_OPROP

\* The pairs (X, Y) of the axioms X <= Y between atomic classes.
Told(ont) == {<<x.args[1].IRI, x.args[2].IRI>> : x \in {y \in AxiomsOf(ont) : isNFA(y)}}

RECURSIVE ReachFrom(_, _)
\* What is reachable from the elements of seen along the pairs of a relation.
ReachFrom(relation, seen) ==
    LET next == seen \cup {e[2] : e \in {f \in relation : f[1] \in seen}}
    IN IF next = seen THEN seen ELSE ReachFrom(relation, next)

Called(class1, class2) == result.op = "isSubclass" /\ result.args = <<class1, class2>>

\* C1: existential propagation.  For an ontology with the axioms A <= Er.B and
\* Er.C <= D over atomic classes, where B = C or a chain of SubClassOf axioms leads
\* from B to C, isSubclass(A, D) returns true.
C1_ExistentialPropagation ==
    \A x \in AxiomsOf(ontology), y \in AxiomsOf(ontology) :
        (/\ isNFC(x)
         /\ isNFD(y)
         /\ x.args[2].opropExpr.IRI = y.args[1].opropExpr.IRI
         /\ y.args[1].classExpr.IRI \in ReachFrom(Told(ontology), {x.args[2].classExpr.IRI})
         /\ Called(x.args[1].IRI, y.args[2].IRI))
        => (~result.thrown /\ result.value)

\* One round of the completion rules of EL+ over the axioms in normal form:
\* T.S holds the derived subsumptions (X, B), T.R the derived edges (X, r, Y).
CompletionRound(axioms, classes, T) ==
    LET conj == {q \in classes \X {x \in axioms : isNFA(x) \/ isNFB(x)} :
                    \A c \in Conjuncts(q[2].args[1]) : <<q[1], c>> \in T.S}
        intro == {q \in classes \X {x \in axioms : isNFC(x)} :
                    <<q[1], q[2].args[1].IRI>> \in T.S}
        elim == {q \in T.R \X {x \in axioms : isNFD(x)} :
                    /\ q[2].args[1].opropExpr.IRI = q[1][2]
                    /\ <<q[1][3], q[2].args[1].classExpr.IRI>> \in T.S}
        hier == {q \in T.R \X {x \in axioms : isNFE(x)} : q[2].arg1.IRI = q[1][2]}
        chain == {q \in (T.R \X T.R) \X {x \in axioms : isNFF(x)} :
                    /\ q[1][1][3] = q[1][2][1]
                    /\ q[2].arg1.args[1].IRI = q[1][1][2]
                    /\ q[2].arg1.args[2].IRI = q[1][2][2]}
    IN [S |-> T.S \cup {<<q[1], q[2].args[2].IRI>> : q \in conj}
                  \cup {<<q[1][1], q[2].args[2].IRI>> : q \in elim},
        R |-> T.R \cup {<<q[1], q[2].args[2].opropExpr.IRI, q[2].args[2].classExpr.IRI>> :
                           q \in intro}
                  \cup {<<q[1][1], q[2].arg2.IRI, q[1][3]>> : q \in hier}
                  \cup {<<q[1][1][1], q[2].arg2.IRI, q[1][2][3]>> : q \in chain}]

RECURSIVE Completion(_, _, _)
Completion(axioms, classes, T) ==
    LET next == CompletionRound(axioms, classes, T)
    IN IF next = T THEN T ELSE Completion(axioms, classes, next)

\* The subsumptions derivable from the normalized ontology: reflexivity, owl:Thing,
\* and the closure under the completion rules.
Derivable(ont) ==
    LET classes == ClassesOf(ont) \cup {THING}
    IN Completion(AxiomsOf(ont), classes,
                  [S |-> {<<X, X>> : X \in classes} \cup {<<X, THING>> : X \in classes},
                   R |-> {}]).S

\* C2: at the fixpoint of the completion algorithm, (X, Y) is in classSubsumers
\* exactly when X <= Y is derivable from the axioms of the normalized ontology, for
\* all classes X, Y of the normalized ontology.
C2_DeductiveClosure ==
    pc \in {"rewriteAbox", "ready"} =>
        \A X \in ClassesOf(resultOntology) \cup {THING},
           Y \in ClassesOf(resultOntology) \cup {THING} :
            pairExists(classSubsumers, X, Y) <=> <<X, Y>> \in Derivable(resultOntology)

\* The statements are SubClassOf axioms between atomic classes other than owl:Thing.
OnlyToldSubsumptions(ont) ==
    \A x \in AxiomsOf(ont) : isNFA(x) /\ x.args[1].IRI # THING /\ x.args[2].IRI # THING

\* C3: subclass transitivity.  For an ontology of SubClassOf axioms between atomic
\* classes other than owl:Thing, isSubclass(X, Y) returns true exactly when X = Y
\* or Y is reachable from X along the axioms.
C3_SubclassTransitivity ==
    (/\ result.op = "isSubclass"
     /\ OnlyToldSubsumptions(ontology)
     /\ result.args[1] \in ClassesOf(ontology)
     /\ result.args[2] \in ClassesOf(ontology))
    => /\ ~result.thrown
       /\ result.value <=> result.args[2] \in ReachFrom(Told(ontology), {result.args[1]})

\* A <= B, B <= C: isSubclass(A, C) has returned true.
C3_Witness ==
    /\ ontology.axioms = <<SubClassOf(A, B), SubClassOf(B, C)>>
    /\ Called("A", "C")
    /\ result.value

\* C4: equivalence symmetry.  For an ontology containing EquivalentClasses(A1..An)
\* over atomic classes, isSubclass(Ai, Aj) returns true for every i, j.
C4_EquivalenceSymmetry ==
    result.op = "isSubclass" =>
        \A x \in AxiomsOf(ontology) :
            (/\ x.type = AXIOM_CLASS_EQ
             /\ \A k \in 1..Len(x.args) : isAtom(x.args[k])
             /\ \E i \in 1..Len(x.args), j \in 1..Len(x.args) :
                    result.args = <<x.args[i].IRI, x.args[j].IRI>>)
            => (~result.thrown /\ result.value)

\* EquivalentClasses(B, C, D): isSubclass(D, B) has returned true.
C4_Witness ==
    /\ EquivalentClasses(<<B, C, D>>) \in AxiomsOf(ontology)
    /\ Called("D", "B")
    /\ result.value

-----------------------------------------------------------------------------
(* Roles, role chains and facts.                                           *)

p == ObjectProperty("p")
q == ObjectProperty("q")
t == ObjectProperty("t")
a0 == NamedIndividual("a0")
a1 == NamedIndividual("a1")
a2 == NamedIndividual("a2")
a3 == NamedIndividual("a3")
a4 == NamedIndividual("a4")

MaxRoleAxioms == 2
MaxFacts == 4

RolePool ==
    <<SubObjectPropertyOf(r, s),
      SubObjectPropertyOf(s, t),
      SubObjectPropertyOf(t, r),
      SubObjectPropertyOf(ObjectPropertyChain(<<r, s>>), t),
      SubObjectPropertyOf(ObjectPropertyChain(<<t, t>>), t),
      SubObjectPropertyOf(ObjectPropertyChain(<<p, q, r>>), t),
      SubObjectPropertyOf(ObjectPropertyChain(<<p, q, r, s>>), t),
      SubClassOf(A, B)>>

FactPool ==
    <<ObjectPropertyAssertion(p, a0, a1),
      ObjectPropertyAssertion(q, a1, a2),
      ObjectPropertyAssertion(r, a2, a3),
      ObjectPropertyAssertion(s, a3, a4),
      ObjectPropertyAssertion(t, a4, a0),
      ObjectPropertyAssertion(s, a3, a3),
      ClassAssertion(A, a0)>>

InitRoles ==
    \E axioms \in Documents(RolePool, MaxRoleAxioms), facts \in Documents(FactPool, MaxFacts) :
        InitWith(axioms \o facts)

SpecRoles == InitRoles /\ [][Construct]_vars

PropertiesOf(ont) == Range(getObjectProperties(ont))
FactsOf(ont) == {x \in AxiomsOf(ont) : isNFH(x)}
ChainsOf(ont) == {x \in AxiomsOf(ont) : isNFF(x)}
Subsumers(role) == Range(pairGet(objectPropertySubsumers, role))
Triple(row) == <<row.objectProperty, row.leftIndividual, row.rightIndividual>>
NoDuplicates(table) == Cardinality(Range(table)) = Len(table)

\* The asserted facts under every subsumer of their property.
AssertedTriples(ont) ==
    UNION {{<<sub, x.leftIndividual.IRI, x.rightIndividual.IRI>> :
               sub \in Subsumers(x.objectProperty.IRI)} : x \in FactsOf(ont)}

RECURSIVE LeastTriples(_, _)
\* The least set that contains S and is closed under the chain axioms.
LeastTriples(S, chains) ==
    LET joined == {z \in (S \X S) \X chains :
                      /\ z[1][1][3] = z[1][2][2]
                      /\ z[1][1][1] = z[2].arg1.args[1].IRI
                      /\ z[1][2][1] = z[2].arg1.args[2].IRI}
        next == S \cup UNION {{<<sub, z[1][1][2], z[1][2][3]>> :
                                  sub \in Subsumers(z[2].arg2.IRI)} : z \in joined}
    IN IF next = S THEN S ELSE LeastTriples(next, chains)

\* C5: property-assertion saturation.  The ObjectPropertyAssertion table holds
\* exactly the triples (p, a, b) of the least set that contains the asserted facts
\* under every subsumer of their property and is closed under the chain axioms of
\* the normalized ontology, p being an object property of the original ontology.
C5_PropertySaturation ==
    pc = "ready" =>
        /\ NoDuplicates(aBox.ObjectPropertyAssertion)
        /\ {Triple(row) : row \in Range(aBox.ObjectPropertyAssertion)}
               = {e \in LeastTriples(AssertedTriples(resultOntology), ChainsOf(resultOntology)) :
                     e[1] \in PropertiesOf(ontology)}

\* r o s <= t with r(a2, a3) and s(a3, a4): the table holds (t, a2, a4) and the facts.
C5_Witness ==
    /\ pc = "ready"
    /\ SubObjectPropertyOf(ObjectPropertyChain(<<r, s>>), t) \in AxiomsOf(ontology)
    /\ {<<"t", "a2", "a4">>, <<"r", "a2", "a3">>, <<"s", "a3", "a4">>}
           \subseteq {Triple(row) : row \in Range(aBox.ObjectPropertyAssertion)}

RECURSIVE Along(_, _, _)
\* The individuals reached from xs by asserted facts along the properties of a chain.
Along(ont, chain, xs) ==
    IF chain = <<>> THEN xs
    ELSE Along(ont, Tail(chain),
               {f.rightIndividual.IRI :
                   f \in {g \in FactsOf(ont) : /\ g.objectProperty.IRI = Head(chain).IRI
                                               /\ g.leftIndividual.IRI \in xs}})

\* The chain axioms longer than two of an ontology, and those of a given length.
LongChainsOf(ont) ==
    {x \in AxiomsOf(ont) :
        x.type = AXIOM_OPROP_SUB /\ x.arg1.type = OPE_CHAIN /\ Len(x.arg1.args) > 2}
RoleAxiomsOf(ont) == {x \in AxiomsOf(ont) : x.type = AXIOM_OPROP_SUB}

\* C6: chain normalization end to end.  For an axiom r1 o ... o rn <= t with n > 2
\* and facts ri(a(i-1), ai), the table holds (t, a0, an); no row has a property
\* minted by the chain split; a chain of four properties is split into exactly
\* three chain axioms of length two with two minted properties.
C6_ChainNormalization ==
    pc = "ready" =>
        /\ \A c \in LongChainsOf(ontology) :
               \A x \in Range(ontology.entities[ET_INDIVIDUAL]) :
                   \A y \in Along(ontology, c.arg1.args, {x}) :
                       opropAssertionRow(c.arg2.IRI, x, y)
                           \in Range(aBox.ObjectPropertyAssertion)
        /\ \A row \in Range(aBox.ObjectPropertyAssertion) :
               row.objectProperty \notin PropertiesOf(resultOntology) \ PropertiesOf(ontology)
        /\ (\E c \in LongChainsOf(ontology) :
               RoleAxiomsOf(ontology) = {c} /\ Len(c.arg1.args) = 4)
           => /\ Cardinality(RoleAxiomsOf(resultOntology)) = 3
              /\ \A x \in RoleAxiomsOf(resultOntology) : isNFF(x)
              /\ Cardinality(PropertiesOf(resultOntology) \ PropertiesOf(ontology)) = 2

\* p o q o r o s <= t with the facts along a0 .. a4: the table holds (t, a0, a4).
C6_Witness ==
    /\ pc = "ready"
    /\ SubObjectPropertyOf(ObjectPropertyChain(<<p, q, r, s>>), t) \in AxiomsOf(ontology)
    /\ {FactPool[1], FactPool[2], FactPool[3], FactPool[4]} \subseteq AxiomsOf(ontology)
    /\ opropAssertionRow("t", "a0", "a4") \in Range(aBox.ObjectPropertyAssertion)

\* C7: class-assertion saturation.  The ClassAssertion table holds exactly the rows
\* (a, B) with ClassAssertion(A, a) in the normalized ontology, B a subsumer of A and
\* B a class of the original ontology.
C7_ClassSaturation ==
    pc = "ready" =>
        /\ NoDuplicates(aBox.ClassAssertion)
        /\ Range(aBox.ClassAssertion)
               = UNION {{classAssertionRow(x.individual.IRI, sub) :
                            sub \in Range(pairGet(classSubsumers, x.classExpr.IRI))
                                        \cap ClassesOf(ontology)} :
                        x \in {y \in AxiomsOf(resultOntology) : isNFG(y)}}

\* An individual asserted to be in Er.B, a class minted for it, and a row of the table.
C7_Witness ==
    /\ pc = "ready"
    /\ ClassAssertion(ObjectSomeValuesFrom(r, B), b) \in AxiomsOf(ontology)
    /\ ClassAssertion(A, a) \in AxiomsOf(ontology)
    /\ SubClassOf(A, B) \in AxiomsOf(ontology)
    /\ classAssertionRow("a", "B") \in Range(aBox.ClassAssertion)
    /\ ClassesOf(resultOntology) # ClassesOf(ontology)

RoleTold(ont) == {<<x.arg1.IRI, x.arg2.IRI>> : x \in {y \in AxiomsOf(ont) : isNFE(y)}}

\* C10: the object-property subsumption relation holds (r, r) for every object
\* property of the normalized ontology, (r, s) for every axiom r <= s, (r, t) with
\* (r, s) and (s, t), and no pair outside the reflexive-transitive closure of the axioms.
C10_RoleClosure ==
    pc \in {"initialise", "buildClassSubsumerSets", "rewriteAbox", "ready"} =>
        /\ \A x \in PropertiesOf(resultOntology) : pairExists(objectPropertySubsumers, x, x)
        /\ \A e \in RoleTold(resultOntology) : pairExists(objectPropertySubsumers, e[1], e[2])
        /\ \A e \in Range(objectPropertySubsumers), f \in Range(objectPropertySubsumers) :
               e[2] = f[1] => pairExists(objectPropertySubsumers, e[1], f[2])
        /\ \A e \in Range(objectPropertySubsumers) :
               e[2] \in ReachFrom(RoleTold(resultOntology), {e[1]})

\* r <= s and s <= t: the relation holds (r, t).
C10_Witness ==
    /\ pc = "ready"
    /\ {SubObjectPropertyOf(r, s), SubObjectPropertyOf(s, t)} \subseteq AxiomsOf(ontology)
    /\ pairExists(objectPropertySubsumers, "r", "t")

-----------------------------------------------------------------------------
(* Normalization of complex statements.                                    *)

MaxNormAxioms == 2

\* Statements of every kind of the data model.  jsw.owl.xml.parse hands the axiom
\* type to parseEqOpropAxiom in place of the element, so an ontology with an
\* EquivalentObjectProperties statement is one the caller has put together with
\* createEntity and axioms.push; its statement has the shape parseEqOpropAxiom gives it.
NormPool ==
    <<SubClassOf(ObjectIntersectionOf(<<A, B>>), ObjectIntersectionOf(<<C, D>>)),
      SubClassOf(ObjectSomeValuesFrom(r, ObjectSomeValuesFrom(s, A)), B),
      SubClassOf(A, ObjectSomeValuesFrom(r, ObjectIntersectionOf(<<B, C>>))),
      SubClassOf(ObjectSomeValuesFrom(r, A), ObjectSomeValuesFrom(s, B)),
      SubClassOf(ObjectIntersectionOf(<<A, ObjectSomeValuesFrom(r, B)>>), C),
      SubClassOf(ObjectIntersectionOf(<<A, ObjectIntersectionOf(<<B, C>>)>>), D),
      EquivalentClasses(<<A, ObjectSomeValuesFrom(r, B)>>),
      EquivalentClasses(<<ObjectIntersectionOf(<<A, B>>), C, D>>),
      SubObjectPropertyOf(r, s),
      SubObjectPropertyOf(ObjectPropertyChain(<<r, s>>), r),
      SubObjectPropertyOf(ObjectPropertyChain(<<r, s, r>>), s),
      EquivalentObjectProperties(<<r, s>>),
      ClassAssertion(ObjectIntersectionOf(<<A, B>>), a),
      ClassAssertion(ObjectSomeValuesFrom(r, A), a),
      ClassAssertion(A, b),
      ObjectPropertyAssertion(r, a, b)>>

InitNorm == \E statements \in Documents(NormPool, MaxNormAxioms) : InitWith(statements)

SpecNorm == InitNorm /\ [][Construct]_vars

isNormalForm(x) ==
    isNFA(x) \/ isNFB(x) \/ isNFC(x) \/ isNFD(x) \/ isNFE(x) \/ isNFF(x) \/ isNFG(x) \/ isNFH(x)

\* C9: normal-form invariant.  For every ontology built from the statement kinds of
\* the data model, normalization returns an ontology, and every statement of the
\* ontology it returns matches one of the normal forms NF-A to NF-H.
C9_NormalForm ==
    /\ result.op # "normalizeOntology"
    /\ pc \notin {"Reasoner", "normalizeOntology"} =>
           \A x \in AxiomsOf(resultOntology) : isNormalForm(x)

-----------------------------------------------------------------------------
(* jsw.rdf.Query and jsw.sql.write                                         *)

VAR == 0
LITERAL == 1
IRI_REF == 2

Var(value) == [type |-> VAR, value |-> value]
IriRef(value) == [type |-> IRI_REF, value |-> value]

\* A query as jsw.rdf.Query holds it, with the triples addTriple has pushed.
Query(triples, variables, distinctResults) ==
    [triples |-> triples, variables |-> variables, distinctResults |-> distinctResults,
     orderBy |-> <<>>, limit |-> 0, offset |-> 0]

addTriple(subject, predicate, object) ==
    [subject |-> subject, predicate |-> predicate, object |-> object]

\* table + '.' + field, the table being the alias 't' + tripleIndex.
Field(table, field) == [table |-> table, field |-> field]

\* The text the writer has built so far: from, where, and the fields of the variables.
Writer == [from |-> <<>>, where |-> <<>>, varFields |-> <<>>, thrown |-> FALSE]

isBound(varFields, value) == \E i \in 1..Len(varFields) : varFields[i].variable = value
fieldOf(varFields, value) ==
    varFields[CHOOSE i \in 1..Len(varFields) : varFields[i].variable = value].field

\* field == 'value'
equalsValue(field, value) == [left |-> field, toValue |-> TRUE, value |-> value, right |-> field]
\* field == varField
equalsField(field, varField) == [left |-> field, toValue |-> FALSE, value |-> "", right |-> varField]

\* A variable met again, with no condition written for it.
writeVar_unjoined(w, value, field) ==
    IF isBound(w.varFields, value) THEN w
    ELSE [w EXCEPT !.varFields = Append(@, [variable |-> value, field |-> field])]

\* varField = varFields[value]; if (varField) where += ...; else varFields[value] = ...
writeVar(w, value, field) ==
    IF isBound(w.varFields, value)
    THEN [w EXCEPT !.where = Append(@, equalsField(field, fieldOf(w.varFields, value)))]
    ELSE [w EXCEPT !.varFields = Append(@, [variable |-> value, field |-> field])]

writeExprCondition(w, expr, table, field) ==
    IF expr.type = IRI_REF
    THEN [w EXCEPT !.where = Append(@, equalsValue(Field(table, field), expr.value))]
    ELSE IF expr.type = VAR THEN writeVar(w, expr.value, Field(table, field))
    ELSE [w EXCEPT !.thrown = TRUE]

\* One iteration of the loop over the triples.
writeTriple(w, triple, tripleIndex, classAssertionTable, opropAssertionTable) ==
    LET predicate == triple.predicate
        table == tripleIndex
        isType == predicate.type = IRI_REF /\ predicate.value = TYPE
        subjectField == IF isType THEN "individual" ELSE "leftIndividual"
        objectField == IF isType THEN "className" ELSE "rightIndividual"
        fromOprop == [w EXCEPT !.from = Append(@, [table |-> opropAssertionTable, as |-> table])]
        w1 == IF predicate.type = IRI_REF
              THEN IF isType
                   THEN [w EXCEPT !.from = Append(@, [table |-> classAssertionTable,
                                                      as |-> table])]
                   ELSE [fromOprop EXCEPT !.where =
                            Append(@, equalsValue(Field(table, "objectProperty"),
                                                  predicate.value))]
              ELSE IF predicate.type = VAR
              THEN writeVar(fromOprop, predicate.value, Field(table, "objectProperty"))
              ELSE [w EXCEPT !.thrown = TRUE]
        w2 == writeExprCondition(w1, triple.subject, table, subjectField)
    IN IF w1.thrown THEN w1
       ELSE IF w2.thrown THEN w2
       ELSE writeExprCondition(w2, triple.object, table, objectField)

RECURSIVE writeTriples(_, _, _, _, _)
writeTriples(w, triples, tripleIndex, classAssertionTable, opropAssertionTable) ==
    IF w.thrown \/ tripleIndex >= Len(triples) THEN w
    ELSE writeTriples(writeTriple(w, At(triples, tripleIndex), tripleIndex,
                                  classAssertionTable, opropAssertionTable),
                      triples, tripleIndex + 1, classAssertionTable, opropAssertionTable)

\* varField + ' AS ' + variable   or   "'' AS " + variable
selectField(varFields, variable) ==
    IF isBound(varFields, variable)
    THEN [isField |-> TRUE, field |-> fieldOf(varFields, variable), as |-> variable]
    ELSE [isField |-> FALSE, field |-> Field(0, ""), as |-> variable]

\* The LIMIT clause with the offset written before the limit.
limitClause_offsetFirst(query) ==
    IF query.limit # 0
    THEN IF query.offset # 0 THEN <<query.offset, query.limit>> ELSE <<query.limit>>
    ELSE IF query.offset # 0 THEN <<query.offset, 0>> ELSE <<>>

\* The LIMIT clause: the numbers written after ' LIMIT '.
limitClause(query) ==
    IF query.limit # 0
    THEN IF query.offset # 0 THEN <<query.limit, query.offset>> ELSE <<query.limit>>
    ELSE IF query.offset # 0 THEN <<0, query.offset>> ELSE <<>>

\* jsw.sql.write(query, classAssertionTable, opropAssertionTable)
write(query, classAssertionTable, opropAssertionTable) ==
    LET w == writeTriples(Writer, query.triples, 0, classAssertionTable, opropAssertionTable)
        projected == query.variables
        select == IF Len(projected) > 0
                  THEN [k \in 1..Len(projected) |->
                           selectField(w.varFields, projected[k].value)]
                  ELSE [k \in 1..Len(w.varFields) |->
                           selectField(w.varFields, w.varFields[k].variable)]
        orderThrows == \E k \in 1..Len(query.orderBy) : query.orderBy[k].type # VAR
        sql == [thrown |-> FALSE, select |-> select, distinct |-> query.distinctResults,
                from |-> w.from, where |-> w.where,
                orderBy |-> [k \in 1..Len(query.orderBy) |->
                                [variable |-> query.orderBy[k].value,
                                 order |-> query.orderBy[k].order]],
                limit |-> limitClause(query)]
    IN IF w.thrown \/ Len(select) = 0 \/ orderThrows
       THEN [sql EXCEPT !.thrown = TRUE]
       ELSE sql

-----------------------------------------------------------------------------
(* The evaluation of the statement against the tables of aBox:             *)
(* queryLang.parseSQL(sql).filter(aBox).                                   *)

RECURSIVE joinTables(_, _, _)
\* The nested-loop join: every combination of one row per table of the from clause.
joinTables(tables, from, combined) ==
    IF from = <<>> THEN combined
    ELSE LET rows == tables[Head(from).table]
         IN joinTables(tables, Tail(from),
                Flatten([i \in 1..Len(combined) |->
                            [j \in 1..Len(rows) |-> Append(combined[i], rows[j])]]))

fieldValue(combination, field) == At(combination, field.table)[field.field]

conditionHolds(combination, condition) ==
    fieldValue(combination, condition.left)
        = IF condition.toValue THEN condition.value
          ELSE fieldValue(combination, condition.right)

projectRow(combination, select) ==
    [v \in {select[k].as : k \in 1..Len(select)} |->
        LET item == select[CHOOSE k \in 1..Len(select) : select[k].as = v]
        IN IF item.isField THEN fieldValue(combination, item.field) ELSE ""]

\* LIMIT limit [, offset]: the rows after the first offset ones, limit of them at
\* most, and all of them for the limit 0.
limitRows(rows, limit) ==
    LET total == IF limit = <<>> THEN 0 ELSE limit[1]
        offset == IF Len(limit) = 2 THEN limit[2] ELSE 0
        last == IF total = 0 \/ offset + total > Len(rows) THEN Len(rows)
                ELSE offset + total
    IN SubSeq(rows, offset + 1, last)

\* SELECT [DISTINCT] select FROM from WHERE where [LIMIT limit [, offset]]
filter(sql, tables) ==
    LET holds(combination) ==
            \A k \in 1..Len(sql.where) : conditionHolds(combination, sql.where[k])
        selected == SelectSeq(joinTables(tables, sql.from, <<<<>>>>), holds)
        rows == [k \in 1..Len(selected) |-> projectRow(selected[k], sql.select)]
    IN limitRows(IF sql.distinct THEN Distinct(rows) ELSE rows, sql.limit)

-----------------------------------------------------------------------------
(* jsw.owl.Reasoner.prototype.answerQuery                                  *)

Person == Class("Person")
Student == Class("Student")
knows == ObjectProperty("knows")
alice == NamedIndividual("alice")
bob == NamedIndividual("bob")

MaxQueryAxioms == 3
MaxTriples == 2

QueryOntologyPool ==
    <<SubClassOf(Student, Person),
      ClassAssertion(Person, alice),
      ClassAssertion(Student, alice),
      ClassAssertion(Student, bob),
      ObjectPropertyAssertion(knows, alice, bob),
      ObjectPropertyAssertion(knows, bob, bob)>>

TriplePool ==
    <<addTriple(Var("x"), IriRef(TYPE), IriRef("Person")),
      addTriple(Var("x"), IriRef(TYPE), Var("y")),
      addTriple(Var("x"), IriRef("knows"), Var("y")),
      addTriple(IriRef("alice"), IriRef("knows"), Var("y")),
      addTriple(Var("x"), Var("z"), Var("y")),
      addTriple(Var("x"), IriRef("knows"), Var("x")),
      addTriple(IriRef("alice"), IriRef(TYPE), IriRef("Person"))>>

\* The queries: one to MaxTriples triples of the pool, all variables or ?x selected.
Queries ==
    {Query(triples, variables, distinctResults) :
        triples \in Documents(TriplePool, MaxTriples) \ {<<>>},
        variables \in {<<>>, <<Var("x")>>},
        distinctResults \in BOOLEAN}

\* reasoner.answerQuery(query)
callAnswerQuery ==
    /\ pc = "ready"
    /\ \E query \in Queries :
           LET sql == write(query, "ClassAssertion", "ObjectPropertyAssertion")
           IN result' = [op |-> "answerQuery", args |-> <<query>>, thrown |-> sql.thrown,
                         rows |-> IF sql.thrown THEN <<>> ELSE filter(sql, aBox),
                         value |-> FALSE]
    /\ UNCHANGED <<pc, ontology, queue, resultOntology, objectPropertySubsumers, aBox>>
    /\ Unchanged_classification
    /\ UNCHANGED tabControl

NextQuery == Construct \/ callAnswerQuery

InitQuery ==
    \E statements \in Documents(QueryOntologyPool, MaxQueryAxioms) : InitWith(statements)

SpecQuery == InitQuery /\ [][NextQuery]_vars

\* The variables of a pattern, and the variables a query selects.
TermsOf(query) ==
    UNION {{query.triples[k].subject, query.triples[k].predicate, query.triples[k].object} :
              k \in 1..Len(query.triples)}
Mentioned(query) == {term.value : term \in {x \in TermsOf(query) : x.type = VAR}}
Selected(query) ==
    IF query.variables = <<>> THEN Mentioned(query)
    ELSE {query.variables[k].value : k \in 1..Len(query.variables)}

\* The IRIs of the saturated tables.
TableIRIs ==
    UNION {{row.individual, row.className} : row \in Range(aBox.ClassAssertion)}
    \cup UNION {{row.objectProperty, row.leftIndividual, row.rightIndividual} :
                   row \in Range(aBox.ObjectPropertyAssertion)}

Value(mu, term) == IF term.type = VAR THEN mu[term.value] ELSE term.value

\* A triple with the predicate rdf:type is a row of the ClassAssertion table, any
\* other triple a row of the ObjectPropertyAssertion table.
Satisfies(mu, triple) ==
    IF triple.predicate.type = IRI_REF /\ triple.predicate.value = TYPE
    THEN classAssertionRow(Value(mu, triple.subject), Value(mu, triple.object))
             \in Range(aBox.ClassAssertion)
    ELSE opropAssertionRow(Value(mu, triple.predicate), Value(mu, triple.subject),
                           Value(mu, triple.object))
             \in Range(aBox.ObjectPropertyAssertion)

\* The projections of the assignments under which every triple of the pattern holds.
Answers(query) ==
    {[v \in Selected(query) |-> mu[v]] :
        mu \in {m \in [Mentioned(query) -> TableIRIs] :
                   \A k \in 1..Len(query.triples) : Satisfies(m, query.triples[k])}}

Answered(query) == result.op = "answerQuery" /\ result.args = <<query>>

-----------------------------------------------------------------------------
(* The Ontology object in the hands of a caller: entities are created with  *)
(* createEntity, statements are pushed to axioms as the parser does it, the *)
(* sizes are asked for, and a reasoner is built for the ontology.           *)

\* getSize(types)
getSize(ont, types) ==
    IF Len(ont.axioms) - 1 < 0 THEN Len(ont.axioms)
    ELSE Cardinality({i \in 1..Len(ont.axioms) : Contains(types, ont.axioms[i].type)})

getAboxSize(ont) == getSize(ont, <<FACT_CLASS, FACT_OPROP>>)

getTboxSize(ont) == getSize(ont, <<AXIOM_CLASS_EQ, AXIOM_CLASS_SUB, AXIOM_OPROP_SUB>>)

getRboxSize(ont) == getSize(ont, <<AXIOM_OPROP_SUB>>)

SizeResult(op, size) == [NoResult EXCEPT !.op = op, !.value = size]

MaxEntities == 2
MaxStatements == 2

\* The entities a caller creates by IRI.
EntityPool == <<A, B, Class(THING), r>>

\* The statements a caller adds.
StatementPool ==
    <<SubClassOf(A, B),
      EquivalentClasses(<<A, B>>),
      SubObjectPropertyOf(r, s),
      SubObjectPropertyOf(ObjectPropertyChain(<<r, s>>), r),
      ClassAssertion(A, a),
      ObjectPropertyAssertion(r, a, b)>>

\* ontology.createEntity(type, iri)
callCreateEntity ==
    /\ pc = "Ontology"
    /\ \E entity \in Range(EntityPool) :
           /\ Len(ontology.entities[entity.type]) < MaxEntities
           /\ ontology' = createEntity(ontology, entity.type, entity.IRI)
    /\ UNCHANGED <<pc, queue, resultOntology, objectPropertySubsumers, aBox, result>>
    /\ Unchanged_classification
    /\ UNCHANGED tabControl

\* ontology.createEntity(type), the IRI generated
callCreateAutoEntity ==
    /\ pc = "Ontology"
    /\ Len(ontology.entities[ET_CLASS]) < MaxEntities
    /\ ontology' = createAutoEntity(ontology, ET_CLASS).ont
    /\ UNCHANGED <<pc, queue, resultOntology, objectPropertySubsumers, aBox, result>>
    /\ Unchanged_classification
    /\ UNCHANGED tabControl

\* A statement is added: its entities are created and it is pushed to axioms.
addStatement ==
    /\ pc = "Ontology"
    /\ Len(ontology.axioms) < MaxStatements
    /\ \E k \in 1..Len(StatementPool) :
           ontology' = [createEntities(ontology, statementEntities(StatementPool[k]))
                           EXCEPT !.axioms = Append(@, StatementPool[k])]
    /\ UNCHANGED <<pc, queue, resultOntology, objectPropertySubsumers, aBox, result>>
    /\ Unchanged_classification
    /\ UNCHANGED tabControl

\* ontology.getTboxSize()
callGetTboxSize ==
    /\ pc = "Ontology"
    /\ result' = SizeResult("getTboxSize", getTboxSize(ontology))
    /\ UNCHANGED <<pc, ontology, queue, resultOntology, objectPropertySubsumers, aBox>>
    /\ Unchanged_classification
    /\ UNCHANGED tabControl

\* ontology.getRboxSize()
callGetRboxSize ==
    /\ pc = "Ontology"
    /\ result' = SizeResult("getRboxSize", getRboxSize(ontology))
    /\ UNCHANGED <<pc, ontology, queue, resultOntology, objectPropertySubsumers, aBox>>
    /\ Unchanged_classification
    /\ UNCHANGED tabControl

\* ontology.getAboxSize()
callGetAboxSize ==
    /\ pc = "Ontology"
    /\ result' = SizeResult("getAboxSize", getAboxSize(ontology))
    /\ UNCHANGED <<pc, ontology, queue, resultOntology, objectPropertySubsumers, aBox>>
    /\ Unchanged_classification
    /\ UNCHANGED tabControl

\* new jsw.owl.Reasoner(ontology)
newReasoner ==
    /\ pc = "Ontology"
    /\ pc' = "Reasoner"
    /\ result' = NoResult
    /\ UNCHANGED <<ontology, queue, resultOntology, objectPropertySubsumers, aBox>>
    /\ Unchanged_classification
    /\ UNCHANGED tabControl

NextOntology ==
    \/ callCreateEntity
    \/ callCreateAutoEntity
    \/ addStatement
    \/ callGetTboxSize
    \/ callGetRboxSize
    \/ callGetAboxSize
    \/ newReasoner
    \/ Construct
    \/ callIsSubclass

\* The state after  new jsw.owl.Ontology().
InitOntology ==
    /\ pc = "Ontology"
    /\ ontology = Ontology
    /\ queue = Queue
    /\ resultOntology = Ontology
    /\ objectPropertySubsumers = PairStorage
    /\ classSubsumers = PairStorage
    /\ edgeLabels = TripletStorage
    /\ queues = <<>>
    /\ nodes = <<>>
    /\ aBox = [ClassAssertion |-> <<>>, ObjectPropertyAssertion |-> <<>>]
    /\ result = NoResult
    /\ tabControl = NoTabControl

SpecOntology == InitOntology /\ [][NextOntology]_vars

\* C11: for every input ontology, one with class entities and no statement
\* included, the construction of the reasoner completes, and classSubsumers then
\* holds (A, A) and (A, owl:Thing) for every class A of the ontology.
C11_ConstructionCompletes ==
    /\ pc # "thrown"
    /\ pc \in {"rewriteAbox", "ready"} =>
           \A cls \in ClassesOf(ontology) :
               /\ pairExists(classSubsumers, cls, cls)
               /\ pairExists(classSubsumers, cls, THING)

\* The second half of C11 alone: what holds whenever the construction completes.
C11_ReflexiveAndThing ==
    pc \in {"rewriteAbox", "ready"} =>
        \A cls \in ClassesOf(ontology) :
            /\ pairExists(classSubsumers, cls, cls)
            /\ pairExists(classSubsumers, cls, THING)

-----------------------------------------------------------------------------
(* The saturation of the ABox applied to its own output.                   *)

isFact(x) == x.type \in {FACT_CLASS, FACT_OPROP}
isNoFact(x) == ~isFact(x)

\* The rows of the two tables read as asserted facts.
ClassFacts(table) ==
    [k \in 1..Len(table) |->
        ClassAssertion(Class(table[k].className), NamedIndividual(table[k].individual))]
PropertyFacts(table) ==
    [k \in 1..Len(table) |->
        ObjectPropertyAssertion(ObjectProperty(table[k].objectProperty),
                                NamedIndividual(table[k].leftIndividual),
                                NamedIndividual(table[k].rightIndividual))]

\* The normalized ontology with the rows of the tables in place of its facts.
Resaturated ==
    [resultOntology EXCEPT
        !.axioms = SelectSeq(@, isNoFact) \o ClassFacts(aBox.ClassAssertion)
                       \o PropertyFacts(aBox.ObjectPropertyAssertion)]

\* C12: the saturation of the ABox is idempotent.  With the rows of the two
\* saturated tables as the asserted facts, saturating again under the same class
\* subsumers, role subsumers and chain axioms yields the same two tables: no row
\* is added and none is removed.
C12_SaturationIdempotent ==
    pc = "ready" =>
        /\ Range(rewriteClassAssertions(Resaturated, ontology, classSubsumers))
               = Range(aBox.ClassAssertion)
        /\ Range(rewriteObjectPropertyAssertions(Resaturated, ontology,
                                                 objectPropertySubsumers))
               = Range(aBox.ObjectPropertyAssertion)

\* r o s <= t and A <= B with r(a2, a3), s(a3, a4) and A(a0): the tables hold the
\* derived rows (t, a2, a4) and (a0, B), and the second saturation adds nothing.
C12_Witness ==
    /\ pc = "ready"
    /\ opropAssertionRow("t", "a2", "a4") \in Range(aBox.ObjectPropertyAssertion)
    /\ classAssertionRow("a0", "B") \in Range(aBox.ClassAssertion)
    /\ opropAssertionRow("t", "a2", "a4")
           \in Range(rewriteObjectPropertyAssertions(Resaturated, ontology,
                                                     objectPropertySubsumers))
    /\ classAssertionRow("a0", "B")
           \in Range(rewriteClassAssertions(Resaturated, ontology, classSubsumers))

-----------------------------------------------------------------------------
(* The main loop of buildClassSubsumerSets with the queue left open: the   *)
(* order in which  for (node in queues)  visits the nodes decides which    *)
(* queue is found first, and here every queue which is not empty may be.   *)

\* One iteration of the main loop taking the oldest instruction of any queue which
\* is not empty.
processAnyInstruction ==
    /\ pc = "buildClassSubsumerSets"
    /\ \E node \in Range(busyNodes(classification)) :
           LET done == processQueue(classification, context, node)
           IN /\ classSubsumers' = done.classSubsumers
              /\ edgeLabels' = done.edgeLabels
              /\ queues' = done.queues
              /\ nodes' = done.nodes
              /\ pc' = IF busyNodes(done) = <<>> THEN "rewriteAbox" ELSE pc
    /\ UNCHANGED <<ontology, queue, resultOntology, objectPropertySubsumers, aBox, result>>
    /\ UNCHANGED tabControl

ConstructAny ==
    \/ normalizeOntology
    \/ normalizeAxiom
    \/ buildObjectPropertySubsumers
    \/ initialiseQueues
    \/ processAnyInstruction
    \/ rewriteAbox

MaxLoopAxioms == 3

LoopPool ==
    <<SubClassOf(A, B),
      SubClassOf(B, C),
      SubClassOf(C, A),
      SubClassOf(ObjectIntersectionOf(<<A, B>>), C),
      EquivalentClasses(<<B, C>>),
      SubClassOf(A, ObjectSomeValuesFrom(r, B)),
      SubClassOf(ObjectSomeValuesFrom(r, B), C),
      SubObjectPropertyOf(ObjectPropertyChain(<<r, r>>), r)>>

InitAnyQueue == \E statements \in Documents(LoopPool, MaxLoopAxioms) : InitWith(statements)

SpecAnyQueue == InitAnyQueue /\ [][ConstructAny]_vars

RECURSIVE mainLoop(_, _)
\* The main loop run to its end with the first queue which is not empty taken at
\* every iteration.
mainLoop(st, ctx) ==
    IF busyNodes(st) = <<>> THEN st
    ELSE mainLoop(processQueue(st, ctx, Head(busyNodes(st))), ctx)

Pairs(storage) == Range(storage)

\* C13: the final classSubsumers does not depend on the queue selected.  Whichever
\* node with a queue which is not empty is taken at each iteration of the main
\* loop, the run ends with the relation the run taking the first such node ends
\* with.
C13_QueueOrderIndependence ==
    pc \in {"rewriteAbox", "ready"} =>
        Pairs(classSubsumers)
            = Pairs(mainLoop(initialise(resultOntology), context).classSubsumers)

\* A run which has taken the queues in another order: it has stored the pairs in
\* another order than the run taking the first queue, and a pair was derived.
C13_Witness ==
    /\ pc = "rewriteAbox"
    /\ classSubsumers # mainLoop(initialise(resultOntology), context).classSubsumers
    /\ \E e \in Pairs(classSubsumers) : e[1] # e[2] /\ e[2] \notin {THING, UNDEFINED}

-----------------------------------------------------------------------------
(* Termination.  The constructor runs to its end once it is called: the    *)
(* steps of Construct are taken as long as one is possible.                *)

SpecFair == InitAnyQueue /\ [][Construct]_vars /\ WF_vars(Construct)

AllQueuesEmpty == busyNodes(classification) = <<>>

\* The instructions waiting in the queue of a node, the oldest first.
Waiting(qs, node) ==
    [k \in 1..(Len(qs[node].queue) - qs[node].emptyElements) |->
        qs[node].queue[k + qs[node].emptyElements]]

\* An iteration of the main loop which has dropped its instruction: nothing but the
\* instruction taken from its queue has changed.
InstructionDropped ==
    /\ classSubsumers' = classSubsumers
    /\ edgeLabels' = edgeLabels
    /\ nodes' = nodes
    /\ \E node \in Range(nodes) :
           /\ Waiting(queues, node) # <<>>
           /\ Waiting(queues', node) = Tail(Waiting(queues, node))
           /\ \A other \in Range(nodes) \ {node} :
                  Waiting(queues', other) = Waiting(queues, other)

\* An iteration of the main loop which has added to the labels of the nodes or of
\* the edges, and has removed none.
LabelsGrown ==
    /\ Pairs(classSubsumers) \subseteq Pairs(classSubsumers')
    /\ Range(edgeLabels) \subseteq Range(edgeLabels')
    /\ \/ Pairs(classSubsumers) # Pairs(classSubsumers')
       \/ Range(edgeLabels) # Range(edgeLabels')

-----------------------------------------------------------------------------
(* Termination of the normalization.  normalizeOntology runs to its end    *)
(* once it is called: its steps are taken as long as one is possible.      *)

Normalize == normalizeOntology \/ normalizeAxiom

SpecNormalize == InitNorm /\ [][Normalize]_vars /\ WF_vars(Normalize)

Max(S) == CHOOSE x \in S : \A y \in S : y <= x

RECURSIVE Sum(_)
Sum(ns) == IF ns = <<>> THEN 0 ELSE Head(ns) + Sum(Tail(ns))

RECURSIVE Depth(_)
\* The depth of an expression: 1 for an entity, one more than its deepest argument
\* for an intersection or an existential restriction; the length of a chain.
Depth(expr) ==
    IF expr.type \in EntityTypes THEN 1
    ELSE IF expr.type = CE_OBJ_VALUES_FROM THEN 1 + Depth(expr.classExpr)
    ELSE IF expr.type = OPE_CHAIN THEN Len(expr.args)
    ELSE 1 + Max({Depth(expr.args[k]) : k \in 1..Len(expr.args)})

\* The measure of a statement: the depths of its expressions and the length of its
\* chain, added up.
Measure(x) ==
    IF "arg1" \in DOMAIN x THEN Depth(x.arg1) + Depth(x.arg2)
    ELSE IF x.type = FACT_CLASS THEN Depth(x.classExpr) + Depth(x.individual)
    ELSE IF x.type = FACT_OPROP
    THEN Depth(x.objectProperty) + Depth(x.leftIndividual) + Depth(x.rightIndividual)
    ELSE Sum([k \in 1..Len(x.args) |-> Depth(x.args[k])])

\* 1 for an equivalence and for a class assertion, 0 for a subsumption.
Rank(x) == IF x.type \in {AXIOM_CLASS_EQ, AXIOM_OPROP_EQ, FACT_CLASS} THEN 1 ELSE 0

\* The measure and the rank in lexicographic order, as one number.
RankedMeasure(x) == 2 * Measure(x) + Rank(x)

\* What the next iteration of the main loop of normalizeOntology makes of the
\* statement it takes from the queue.
NextApplied == applyRules(lastRuleIndex, dequeued(queue), resultOntology)
RuleApplies ==
    /\ pc = "normalizeOntology"
    /\ ~isEmpty(queue)
    /\ NextApplied.out.res = "axioms"

NormalizationEnded == pc = "buildObjectPropertySubsumerSets" /\ isEmpty(queue)

NoRoleEquivalence == \A x \in AxiomsOf(ontology) : x.type # AXIOM_OPROP_EQ

-----------------------------------------------------------------------------
(* Calls of isSubclass.                                                    *)

\* The classes minted by the normalization.
MintedClasses == ClassesOf(resultOntology) \ ClassesOf(ontology)

\* C16: isSubclass(a, b) fails with the unknown-class exception whenever a or b is
\* not a class of the original ontology, a class minted by the normalization
\* included, and returns whether (a, b) is in classSubsumers otherwise; the call
\* leaves the state of the reasoner as it was.
C16_UnknownClass ==
    /\ [](result.op = "isSubclass" =>
              IF {result.args[1], result.args[2]} \subseteq ClassesOf(ontology)
              THEN /\ ~result.thrown
                   /\ result.value = pairExists(classSubsumers, result.args[1], result.args[2])
              ELSE result.thrown)
    /\ [][pc = "ready" =>
              UNCHANGED <<pc, ontology, queue, resultOntology, objectPropertySubsumers,
                          classSubsumers, edgeLabels, queues, nodes, aBox>>]_vars

\* isSubclass called with a class minted by the normalization as its second
\* argument and a class of the ontology as its first: the exception.
C16_Witness ==
    /\ result.op = "isSubclass"
    /\ result.args[1] \in ClassesOf(ontology)
    /\ result.args[2] \in MintedClasses
    /\ pairExists(classSubsumers, result.args[2], result.args[2])
    /\ result.thrown

-----------------------------------------------------------------------------
(* owl:Thing among the classes, and the sizes of the boxes.                *)

\* C17: owl:Thing is a class of every ontology.  In every state of an Ontology
\* object, freshly constructed or after entities were created and statements
\* added, and in the normalized ontology, the classes contain owl:Thing, so that
\* isSubclass(A, owl:Thing) returns true for every class A of the ontology.
C17_ThingIsAClass ==
    /\ containsClass(ontology, THING)
    /\ pc \in {"initialise", "buildClassSubsumerSets", "rewriteAbox", "ready"}
           => containsClass(resultOntology, THING)
    /\ (/\ result.op = "isSubclass"
        /\ result.args[1] \in ClassesOf(ontology)
        /\ result.args[2] = THING)
           => (~result.thrown /\ result.value)

\* What does hold for owl:Thing: once owl:Thing is a class of the ontology,
\* isSubclass(A, owl:Thing) returns true for every class A of the ontology.
C17_ThingSubsumesWhenKnown ==
    (/\ result.op = "isSubclass"
     /\ {result.args[1], THING} \subseteq ClassesOf(ontology)
     /\ result.args[2] = THING)
        => (~result.thrown /\ result.value)

\* The number of the statements of the ontology whose type is one of types.
StatementsOf(types) ==
    Cardinality({k \in 1..Len(ontology.axioms) : ontology.axioms[k].type \in types})

\* A step which is a call of the size method op on the ontology.
SizeCalled(op) == pc = "Ontology" /\ ontology' = ontology /\ result'.op = op

\* C18: the sizes partition the statements by kind.  getTboxSize returns the number
\* of the SubClassOf and EquivalentClasses statements only, getRboxSize the number
\* of the object property subsumptions, getAboxSize the number of the class and
\* object property assertions, for every ontology, the empty one included.
C18_SizesPartition ==
    [][/\ SizeCalled("getTboxSize")
           => result'.value = StatementsOf({AXIOM_CLASS_SUB, AXIOM_CLASS_EQ})
       /\ SizeCalled("getRboxSize")
           => result'.value = StatementsOf({AXIOM_OPROP_SUB})
       /\ SizeCalled("getAboxSize")
           => result'.value = StatementsOf({FACT_CLASS, FACT_OPROP})]_vars

\* What does hold of the sizes: getTboxSize counts the object property
\* subsumptions with the class axioms.
C18_TboxCountsRoleAxioms ==
    [][/\ SizeCalled("getTboxSize")
           => result'.value
                  = StatementsOf({AXIOM_CLASS_SUB, AXIOM_CLASS_EQ, AXIOM_OPROP_SUB})
       /\ SizeCalled("getRboxSize")
           => result'.value = StatementsOf({AXIOM_OPROP_SUB})
       /\ SizeCalled("getAboxSize")
           => result'.value = StatementsOf({FACT_CLASS, FACT_OPROP})]_vars

-----------------------------------------------------------------------------
(* The instructions for the edges.                                         *)

\* The instruction the next iteration of the main loop takes.
NextInstruction == dequeued(queues[Head(busyNodes(classification))])

LabelEdgeTaken ==
    /\ pc = "buildClassSubsumerSets"
    /\ ~AllQueuesEmpty
    /\ NextInstruction.type = 1

\* C19: a LabelEdge(A, B, p) instruction applied.  If (A, B, p) is in edgeLabels
\* the instruction is dropped: edgeLabels, classSubsumers and the queues stay as
\* they are.  If it is not, (A, B, q) is in edgeLabels after the instruction for
\* every subsumer q of p, p itself included.
C19_LabelEdge ==
    [][LabelEdgeTaken =>
           IF tripletExists(edgeLabels, NextInstruction.node1, NextInstruction.node2,
                            NextInstruction.label)
           THEN InstructionDropped
           ELSE \A sub \in Range(pairGet(objectPropertySubsumers, NextInstruction.label)) :
                    tripletExists(edgeLabels', NextInstruction.node1,
                                  NextInstruction.node2, sub)]_vars

\* What the code does with the instructions for the edges: no edge is ever stored.
C19_NoEdgeStored == edgeLabels = TripletStorage

\* The instructions for the edges a label of a node asks for: one for every axiom
\* label [= some p.c  of the normalized ontology.
EdgeSeeds(node, label) ==
    {LabelEdgeInstruction(node, IRI(x.args[2].classExpr), IRI(x.args[2].opropExpr)) :
        x \in {y \in Range(resultOntology.axioms) : isNFC(y) /\ IRI(y.args[1]) = label}}

\* The labels a step adds to the nodes have their instructions for the edges waiting
\* in the queue of the node after the step.
NewLabelsSeeded ==
    \A pair \in Pairs(classSubsumers') \ Pairs(classSubsumers) :
        EdgeSeeds(pair[1], pair[2]) \subseteq Range(Waiting(queues', pair[1]))

\* C20: the edges are seeded on new labels.  Whenever a label B is added to the
\* subsumers of A, by initialise or by a LabelNode instruction, an instruction
\* LabelEdge(A, C, p) is put into the queue of A for every axiom  B [= some p.C  of
\* the normalized ontology; and once the queues are empty (A, C, p) is in edgeLabels
\* for every B in the subsumers of A and every such axiom.
C20_EdgeSeeding ==
    /\ [][NewLabelsSeeded]_vars
    /\ [](pc \in {"rewriteAbox", "ready"} =>
            \A pair \in Pairs(classSubsumers) :
                \A seed \in EdgeSeeds(pair[1], pair[2]) :
                    tripletExists(edgeLabels, seed.node1, seed.node2, seed.label))

\* What the code does: initialise seeds the edges of the labels it adds, and the
\* labels a LabelNode instruction adds are the ones which are not seeded.
C20_SeededByInitialise == [][pc = "initialise" => NewLabelsSeeded]_vars

-----------------------------------------------------------------------------
(* The edges at the end of buildClassSubsumerSets.                         *)

Fixpoint == pc \in {"rewriteAbox", "ready"}

\* C21: at the end of buildClassSubsumerSets, for every edge (A, B, p) of edgeLabels,
\* every C in the subsumers of B and every axiom  some p.C [= D  of the normalized
\* ontology, D is in the subsumers of A, whichever of the edge and the label C was
\* added first.
C21_EdgePropagation ==
    Fixpoint =>
        \A edge \in Range(edgeLabels) :
            \A x \in {y \in Range(resultOntology.axioms) : isNFD(y)} :
                (/\ IRI(x.args[1].opropExpr) = edge[3]
                 /\ pairExists(classSubsumers, edge[2], IRI(x.args[1].classExpr)))
                    => pairExists(classSubsumers, edge[1], IRI(x.args[2]))

\* C22: at the end of buildClassSubsumerSets edgeLabels is closed under the
\* subsumption of the object properties: for every edge (A, B, p) and every subsumer
\* q of p, (A, B, q) is an edge, the edges added along the role chains included.
C22_EdgeRoleClosure ==
    Fixpoint =>
        \A edge \in Range(edgeLabels) :
            \A sub \in Range(pairGet(objectPropertySubsumers, edge[3])) :
                tripletExists(edgeLabels, edge[1], edge[2], sub)

-----------------------------------------------------------------------------
(* The equivalences of object properties.                                  *)

Normalized == pc \notin {"Reasoner", "normalizeOntology", "thrown"}

RolesBuilt ==
    pc \in {"initialise", "buildClassSubsumerSets", "rewriteAbox", "ready"}

\* C23: the equivalences of object properties are split into subsumptions of object
\* properties.  Normalizing EquivalentObjectProperties(r1, ..., rn) ends without an
\* exception and gives the axioms  ri [= rj  for i # j, each a SubObjectPropertyOf
\* statement with an object property on either side and none a class subsumption, so
\* that objectPropertySubsumers has (ri, rj) for all i and j.
C23_RoleEquivalenceSplit ==
    \A x \in {y \in Range(ontology.axioms) : y.type = AXIOM_OPROP_EQ} :
        /\ ~(result.thrown /\ result.op = "normalizeOntology")
        /\ Normalized =>
               /\ \A i, j \in 1..Len(x.args) :
                      i # j => SubObjectPropertyOf(x.args[i], x.args[j])
                                   \in Range(resultOntology.axioms)
               /\ \A y \in Range(resultOntology.axioms) :
                      y.type = AXIOM_CLASS_SUB =>
                          \A k \in 1..Len(y.args) : y.args[k].type # ET_OPROP
        /\ RolesBuilt =>
               \A i, j \in 1..Len(x.args) :
                   pairExists(objectPropertySubsumers, IRI(x.args[i]), IRI(x.args[j]))

-----------------------------------------------------------------------------
(* The order of the rules of normalizeOntology.                            *)

\* The rules which do something to the axiom.
Applicable(axiom, ont) ==
    {ruleIndex \in 0..lastRuleIndex : rules(ruleIndex, axiom, ont).res # "null"}

\* The first of them in the order of the array: chain, equivalence, intersection on
\* the right, complex, intersection on the left, some on the left, some on the right,
\* class assertion.
FirstApplicable(axiom, ont) ==
    CHOOSE ruleIndex \in Applicable(axiom, ont) :
        \A other \in Applicable(axiom, ont) : ruleIndex <= other

\* C24: the priority of the rules.  For each statement taken from the queue the rule
\* applied is the first one which applies, in the order of the array; so for
\* C [= D1 n D2 with a complex C the intersection on the right is split and no class
\* is created in that step.  A statement no rule applies to is added to the result.
C24_RulePriority ==
    [][(pc = "normalizeOntology" /\ ~isEmpty(queue)) =>
          LET axiom == dequeued(queue)
          IN IF Applicable(axiom, resultOntology) = {}
             THEN resultOntology'.axioms = Append(resultOntology.axioms, axiom)
             ELSE LET first == rules(FirstApplicable(axiom, resultOntology), axiom,
                                     resultOntology)
                  IN first.res = "axioms" =>
                         /\ resultOntology' = first.ont
                         /\ queue' = enqueueDown(dequeue(queue), first.axioms)]_vars

-----------------------------------------------------------------------------
(* LIMIT and OFFSET of a query.                                            *)

Min(S) == CHOOSE x \in S : \A y \in S : x <= y

MaxLimit == 2
MaxOffset == 2

\* Queries of one triple with all their variables selected, a limit and an offset.
LimitedQueries ==
    {[Query(<<TriplePool[i]>>, <<>>, distinctResults) EXCEPT !.limit = n, !.offset = k] :
        i \in 2..5, distinctResults \in BOOLEAN, n \in 0..MaxLimit, k \in 0..MaxOffset}

\* reasoner.answerQuery(query) for a query with query.limit and query.offset set.
callAnswerLimited ==
    /\ pc = "ready"
    /\ \E query \in LimitedQueries :
           LET sql == write(query, "ClassAssertion", "ObjectPropertyAssertion")
           IN result' = [op |-> "answerQuery", args |-> <<query>>, thrown |-> sql.thrown,
                         rows |-> IF sql.thrown THEN <<>> ELSE filter(sql, aBox),
                         value |-> FALSE]
    /\ UNCHANGED <<pc, ontology, queue, resultOntology, objectPropertySubsumers, aBox>>
    /\ Unchanged_classification
    /\ UNCHANGED tabControl

NextLimit == Construct \/ callAnswerLimited

SpecLimit == InitQuery /\ [][NextLimit]_vars

\* The rows of the query without its limit and its offset.
Unlimited(query) ==
    filter(write([query EXCEPT !.limit = 0, !.offset = 0],
                 "ClassAssertion", "ObjectPropertyAssertion"), aBox)

-----------------------------------------------------------------------------
(* jsw.util.Queue in the hands of a caller.  result.args holds the objects  *)
(* the caller has put into the queue and result.rows the objects dequeue    *)
(* has returned, both in the order of the calls; result.value is what the   *)
(* last isEmpty returned, and for dequeue whether it returned null.         *)

MaxEnqueued == 5

Objects == {"x", "y"}

\* queue.enqueue(obj)
callEnqueue ==
    /\ pc = "Queue"
    /\ Len(result.args) < MaxEnqueued
    /\ \E obj \in Objects :
           /\ queue' = enqueue(queue, obj)
           /\ result' = [result EXCEPT !.op = "enqueue", !.args = Append(@, obj)]
    /\ UNCHANGED <<pc, ontology, resultOntology, objectPropertySubsumers, aBox>>
    /\ Unchanged_classification
    /\ UNCHANGED tabControl

\* queue.dequeue()
callDequeue ==
    /\ pc = "Queue"
    /\ queue' = dequeue(queue)
    /\ result' = IF Len(queue.queue) = 0
                 THEN [result EXCEPT !.op = "dequeue", !.value = TRUE]
                 ELSE [result EXCEPT !.op = "dequeue", !.value = FALSE,
                                     !.rows = Append(@, dequeued(queue))]
    /\ UNCHANGED <<pc, ontology, resultOntology, objectPropertySubsumers, aBox>>
    /\ Unchanged_classification
    /\ UNCHANGED tabControl

\* queue.isEmpty()
callIsEmpty ==
    /\ pc = "Queue"
    /\ result' = [result EXCEPT !.op = "isEmpty", !.value = isEmpty(queue)]
    /\ UNCHANGED <<pc, ontology, queue, resultOntology, objectPropertySubsumers, aBox>>
    /\ Unchanged_classification
    /\ UNCHANGED tabControl

NextQueue == callEnqueue \/ callDequeue \/ callIsEmpty

\* The state after  new jsw.util.Queue().
InitQueue ==
    /\ pc = "Queue"
    /\ ontology = Ontology
    /\ queue = Queue
    /\ resultOntology = Ontology
    /\ objectPropertySubsumers = PairStorage
    /\ classSubsumers = PairStorage
    /\ edgeLabels = TripletStorage
    /\ queues = <<>>
    /\ nodes = <<>>
    /\ aBox = [ClassAssertion |-> <<>>, ObjectPropertyAssertion |-> <<>>]
    /\ result = NoResult
    /\ tabControl = NoTabControl

SpecQueue == InitQueue /\ [][NextQueue]_vars

AllReturned == Len(result.rows) = Len(result.args)

\* C26: the queue is first in, first out under any interleaving of enqueue and
\* dequeue.  The objects dequeue has returned are the oldest ones put into the queue,
\* in their order; dequeue on a queue with nothing left returns null and changes
\* nothing; and isEmpty() is true exactly when every object put into the queue has
\* been returned, whatever shrinking of the array has taken place.
C26_QueueFifo ==
    /\ [](pc = "Queue" =>
            /\ Len(result.rows) <= Len(result.args)
            /\ result.rows = SubSeq(result.args, 1, Len(result.rows))
            /\ isEmpty(queue) <=> AllReturned
            /\ result.op = "isEmpty" => (result.value <=> AllReturned))
    /\ [][(pc = "Queue" /\ result'.op = "dequeue") =>
             IF AllReturned
             THEN result'.value /\ queue' = queue /\ result'.rows = result.rows
             ELSE /\ ~result'.value
                  /\ result'.rows = Append(result.rows, result.args[Len(result.rows) + 1])]_vars

\* Objects put into the queue between the calls of dequeue, the array shrunk on the
\* way, and the last one returned after the others.
C26_Witness ==
    /\ pc = "Queue"
    /\ result.op = "dequeue"
    /\ result.args = <<"x", "y", "y", "x", "y">>
    /\ result.rows = result.args
    /\ queue = Queue

-----------------------------------------------------------------------------
(* The intersections on the left.                                          *)

\* C27: the rule of the intersections is never lost.  A LabelNode instruction whose
\* required labels are not all there when it is processed is dropped and not queued
\* again; still, at the end of buildClassSubsumerSets, for every axiom
\* A1 n ... n An [= D  of the normalized ontology and every node X with all of
\* A1, ..., An in its subsumers, D is in the subsumers of X, in whatever order the
\* classes A1, ..., An were added to X.
C27_ConjunctionNeverLost ==
    Fixpoint =>
        \A x \in {y \in Range(resultOntology.axioms) : isNFB(y)} :
            \A node \in Range(nodes) :
                (\A conjunct \in Range(x.args[1].args) :
                     pairExists(classSubsumers, node, IRI(conjunct)))
                    => pairExists(classSubsumers, node, IRI(x.args[2]))

\* A [= B and A n B [= C: the instruction made for the label A of the node A is
\* dropped, B being added after it, and C is in the subsumers of A at the end.
C27_Witness ==
    /\ pc = "ready"
    /\ ontology.axioms = <<TBoxPool[1], TBoxPool[10]>>
    /\ pairExists(classSubsumers, "A", "B")
    /\ pairExists(classSubsumers, "A", "C")

-----------------------------------------------------------------------------
(* The subsumers of the classes at the end of buildClassSubsumerSets.      *)

C28_NoExistentialDerivation ==
    (/\ Fixpoint
     /\ AxiomsOf(ontology) = {SubClassOf(A, ObjectSomeValuesFrom(r, B)),
                              SubClassOf(ObjectSomeValuesFrom(r, B), D)})
        => ~pairExists(classSubsumers, "A", "D")

-----------------------------------------------------------------------------
(* The labels of the nodes.                                                *)

\* C29: the labels are well typed.  In every state of buildClassSubsumerSets every
\* pair (A, B) of classSubsumers has A and B equal to owl:Thing or to the IRI of a
\* class of the normalized ontology; no label is made of the right side of an axiom
\* A [= some r.B, which is no class.
C29_WellTypedLabels ==
    \A pair \in Pairs(classSubsumers) :
        /\ pair[1] \in ClassesOf(resultOntology) \cup {THING}
        /\ pair[2] \in ClassesOf(resultOntology) \cup {THING}

-----------------------------------------------------------------------------
(* TabControl.  A tab is [tabId, enabled]; its box has the boxId of the tab. *)
(* className and display are the className of the element of each tab and  *)
(* the style.display of its box; selected is the tabId of this.selected,   *)
(* NoTab while this.selected is undefined.                                 *)

MaxTabs == 2

TabIds == <<"tab1", "tab2", "tab3">>

NoTab == ""

\* classNames.key || ""
className(classNames, key) == IF key \in DOMAIN classNames THEN classNames[key] ELSE ""

\* The classNames objects given to the constructor.
ClassNamesPool ==
    {[active |-> "active", disabled |-> "disabled"],
     [active |-> "active", disabled |-> "disabled", enabled |-> "enabled",
      inactive |-> "inactive"],
     [active |-> "active"]}

\* find(id): the index of the tab with the id, 0 for undefined.
find(tc, id) ==
    IF \E i \in 1..Len(tc.tabs) : tc.tabs[i].tabId = id
    THEN CHOOSE i \in 1..Len(tc.tabs) :
             /\ tc.tabs[i].tabId = id
             /\ \A j \in 1..(i - 1) : tc.tabs[j].tabId # id
    ELSE 0

\* findFirstEnabled(): the index of the first tab which is enabled, 0 for undefined.
findFirstEnabled(tc) ==
    IF \E i \in 1..Len(tc.tabs) : tc.tabs[i].enabled
    THEN CHOOSE i \in 1..Len(tc.tabs) :
             /\ tc.tabs[i].enabled
             /\ \A j \in 1..(i - 1) : ~tc.tabs[j].enabled
    ELSE 0

\* select(id)
select(tc, id) ==
    LET tab == find(tc, id)
    IN IF className(tc.classNames, "active") = "" THEN tc
       ELSE IF tab = 0 THEN tc
       ELSE IF ~tc.tabs[tab].enabled THEN tc
       ELSE LET deselected ==
                    IF tc.selected # NoTab
                    THEN [tc EXCEPT
                             !.className[tc.selected] = className(tc.classNames, "inactive"),
                             !.display[tc.selected] = "none"]
                    ELSE tc
            IN [deselected EXCEPT !.className[id] = tc.classNames.active,
                                  !.display[id] = "block",
                                  !.selected = id]

\* setEnabled(id, enabled)
setEnabled(tc, id, enabled) ==
    LET tab == find(tc, id)
    IN IF ~enabled /\ className(tc.classNames, "disabled") = "" THEN tc
       ELSE IF tab = 0 THEN tc
       ELSE LET shown ==
                    IF ~enabled
                    THEN LET marked == [tc EXCEPT !.className[id] = tc.classNames.disabled]
                         IN IF marked.selected # NoTab /\ marked.selected = id
                            THEN LET hidden == [marked EXCEPT !.display[id] = "none"]
                                     firstEnabled == findFirstEnabled(hidden)
                                 IN IF firstEnabled # 0
                                    THEN select(hidden, hidden.tabs[firstEnabled].tabId)
                                    ELSE hidden
                            ELSE marked
                    ELSE [tc EXCEPT !.className[id] = className(tc.classNames, "enabled")]
            IN [shown EXCEPT !.tabs[tab].enabled = enabled]

RECURSIVE setEnabledAll(_, _)
\* The loop of the constructor over the tabs.
setEnabledAll(tc, tabIndex) ==
    IF tabIndex > Len(tc.tabs) THEN tc
    ELSE setEnabledAll(setEnabled(tc, tc.tabs[tabIndex].tabId, tc.tabs[tabIndex].enabled),
                       tabIndex + 1)

\* new TabControl(tabs, classNames)
TabControl(tabs, classNames) ==
    LET ids == {tabs[i].tabId : i \in 1..Len(tabs)}
        this == [tabs |-> tabs, classNames |-> classNames, selected |-> NoTab,
                 className |-> [id \in ids |-> ""], display |-> [id \in ids |-> ""]]
        set == setEnabledAll(this, 1)
        firstEnabled == findFirstEnabled(set)
    IN IF firstEnabled # 0 THEN select(set, set.tabs[firstEnabled].tabId) ELSE set

\* tabControl.select(id), for the id of a tab or of no tab.
callSelect ==
    /\ pc = "TabControl"
    /\ \E id \in Range(TabIds) :
           /\ tabControl' = select(tabControl, id)
           /\ result' = [NoResult EXCEPT !.op = "select", !.args = <<id>>]
    /\ UNCHANGED <<pc, ontology, queue, resultOntology, objectPropertySubsumers, aBox>>
    /\ Unchanged_classification

\* tabControl.setEnabled(id, enabled)
callSetEnabled ==
    /\ pc = "TabControl"
    /\ \E id \in Range(TabIds), enabled \in BOOLEAN :
           /\ tabControl' = setEnabled(tabControl, id, enabled)
           /\ result' = [NoResult EXCEPT !.op = "setEnabled", !.args = <<id, enabled>>]
    /\ UNCHANGED <<pc, ontology, queue, resultOntology, objectPropertySubsumers, aBox>>
    /\ Unchanged_classification

NextTabs == callSelect \/ callSetEnabled

\* The tabs given to the constructor: one to MaxTabs tabs, each enabled or not.
TabsPool ==
    UNION {{[i \in 1..n |-> [tabId |-> TabIds[i], enabled |-> flags[i]]] :
               flags \in [1..n -> BOOLEAN]} : n \in 1..MaxTabs}

\* The state after  new TabControl(tabs, classNames).
InitTabs ==
    /\ pc = "TabControl"
    /\ ontology = Ontology
    /\ queue = Queue
    /\ resultOntology = Ontology
    /\ objectPropertySubsumers = PairStorage
    /\ classSubsumers = PairStorage
    /\ edgeLabels = TripletStorage
    /\ queues = <<>>
    /\ nodes = <<>>
    /\ aBox = [ClassAssertion |-> <<>>, ObjectPropertyAssertion |-> <<>>]
    /\ result = NoResult
    /\ \E tabs \in TabsPool, classNames \in ClassNamesPool :
           tabControl = TabControl(tabs, classNames)

SpecTabs == InitTabs /\ [][NextTabs]_vars

ActiveAndDisabled ==
    /\ className(tabControl.classNames, "active") # ""
    /\ className(tabControl.classNames, "disabled") # ""

isEnabled(tc, id) == find(tc, id) # 0 /\ tc.tabs[find(tc, id)].enabled

\* C30: the tab control.  After any calls of select(id) and setEnabled(id, enabled)
\* on a TabControl whose classNames have active and disabled, the selected tab, if
\* there is one, is enabled; after setEnabled(id, false) for the selected tab that
\* tab is no longer the selected one whenever another tab is enabled; and select(id)
\* for the id of no tab or of a disabled tab changes nothing.
C30_SelectedTabEnabled ==
    /\ []((pc = "TabControl" /\ ActiveAndDisabled /\ tabControl.selected # NoTab)
             => isEnabled(tabControl, tabControl.selected))
    /\ [][(/\ pc = "TabControl"
           /\ ActiveAndDisabled
           /\ result'.op = "setEnabled"
           /\ result'.args = <<tabControl.selected, FALSE>>
           /\ \E other \in Range(TabIds) \ {tabControl.selected} :
                  isEnabled(tabControl, other))
             => tabControl'.selected # tabControl.selected]_vars
    /\ [][(/\ pc = "TabControl"
           /\ ActiveAndDisabled
           /\ result'.op = "select"
           /\ ~isEnabled(tabControl, result'.args[1]))
             => tabControl' = tabControl]_vars

====
